---- MODULE Spec2Model ----
(***************************************************************************)
(* Whiteboard: the undo/redo history hook (hooks/useHistory) and the       *)
(* pointer-gesture handlers of the Whiteboard component.                    *)
(*                                                                         *)
(* Every handler is one atomic action: React runs a handler against the    *)
(* state of the last render, batches the setState calls it makes and       *)
(* re-renders before the next event is dispatched.  Within one handler the *)
(* values read are those of the closure (the unprimed variables).          *)
(***************************************************************************)
EXTENDS Integers, Sequences, FiniteSets, TLC

VARIABLES
    history,        \* useHistory: WhiteboardElement[][]
    currentIndex,   \* useHistory: index of the current snapshot (0-based)
    view,           \* Whiteboard: ViewState {x, y, scale}
    activeTool,     \* Whiteboard: ToolType
    isDragging,
    isResizing,     \* name of the handle being dragged, or null
    isPanning,
    dragStart,      \* screen position of the last pan event
    selectedIds,    \* Set<string>, in insertion order
    selectionBox,   \* {start, end} or null
    currentLaserId,
    triangleStep,
    currentElement, \* the shape being drawn, or null
    tempElements,   \* the tentative shape list, or null
    dragOrigin,     \* world position of the press that started a move, or null
    dragOffset,
    activePointers, \* ref: Map pointerId -> last screen position
    pinchState,     \* ref: {initialDist, initialScale, worldMid} or null
    pressed,        \* the pointers that are physically down
    g,              \* bookkeeping of the gesture in progress
    hop,            \* record of the last history operation and the state it was called in
    scn,            \* progress of the scenario "5 entries at index 4; undo; undo; push"
    vop,            \* record of the last operation on the view and the view it was called in
    fcall,          \* record of the last call of a pure function: its arguments and result
    imports         \* the image loads in flight: the render each handleImageUpload closed over

histVars == <<history, currentIndex>>
uiVars == <<view, activeTool, isDragging, isResizing, isPanning, dragStart, selectedIds,
           selectionBox, currentLaserId, triangleStep, currentElement, tempElements,
           dragOrigin, dragOffset, activePointers, pinchState>>
vars == <<history, currentIndex, uiVars, pressed, g, hop, scn, vop, fcall, imports>>

Null == "null"
Undefined == "undefined"

(***************************************************************************)
(* Bounds                                                                   *)
(***************************************************************************)
MaxPush == 60        \* pushes in one behaviour of SpecHistory
MaxUndoRedo == 2     \* undo/redo calls in one behaviour of SpecHistory
MaxPointers == 2    \* pointer ids
MaxPts == 2         \* screen positions an event can have
MaxCommits == 2     \* snapshots the component pushes
MaxSoloCommits == 4  \* snapshots pushed in a behaviour of SpecSolo
MaxDuoCommits == 1   \* snapshots pushed in a behaviour of SpecDuo
MaxVariantCommits == 2  \* snapshots pushed in a behaviour of SpecVariant
MaxShapes == 1      \* shapes in a list
MaxPencilPts == 2   \* points of a pencil stroke being drawn

(***************************************************************************)
(* hooks/useHistory                                                         *)
(***************************************************************************)
HISTORY_CAP == 50

\* history[i] with the 0-based index of the code
At(h, i) == h[i + 1]

\* the list the hook exposes
elements == At(history, currentIndex)

canUndo_GE == currentIndex >= 0

canUndo == currentIndex > 0

canRedo == currentIndex < Len(history) - 1

pushToHistory_NoSlice(h, i, els) ==
    LET newHistory == Append(h, els)
        capped == IF Len(newHistory) > HISTORY_CAP THEN Tail(newHistory) ELSE newHistory
    IN  [history |-> capped, currentIndex |-> Len(capped) - 1]

pushToHistory_NoShift(h, i, els) ==
    LET newHistory == Append(SubSeq(h, 1, i + 1), els)
    IN  [history |-> newHistory, currentIndex |-> Len(newHistory) - 1]

\* pushToHistory(elements): the new stack and index, computed from the
\* history and currentIndex of the closure
pushToHistory(h, i, els) ==
    LET newHistory == Append(SubSeq(h, 1, i + 1), els)
        capped == IF Len(newHistory) > HISTORY_CAP THEN Tail(newHistory) ELSE newHistory
    IN  [history |-> capped, currentIndex |-> Len(capped) - 1]

undoIndex_NoGuard(h, i) == i - 1

\* undo(): the index after the call
undoIndex(h, i) == IF i > 0 THEN i - 1 ELSE i

\* undo(): the value returned
undoReturn(h, i) == IF i > 0 THEN At(h, i - 1) ELSE Null

\* redo() jumping to the newest snapshot
redoIndex_Last(h, i) == IF i < Len(h) - 1 THEN Len(h) - 1 ELSE i

\* redo(): the index after the call
redoIndex(h, i) == IF i < Len(h) - 1 THEN i + 1 ELSE i

redoReturn_NoGuard(h, i) == IF i < Len(h) THEN At(h, i) ELSE Null

\* redo(): the value returned
redoReturn(h, i) == IF i < Len(h) - 1 THEN At(h, i + 1) ELSE Null

(***************************************************************************)
(* utils: geometry kernel.  Coordinates are integers; the inputs of the    *)
(* model keep every quotient and every square root the code takes exact.   *)
(***************************************************************************)
\* a value that may be null: <<>> is null and <<v>> is the value v
None == <<>>
Some(v) == << v >>
Val(o) == o[1]

Pt(px, py) == [x |-> px, y |-> py]

Abs(n) == IF n < 0 THEN -n ELSE n
Min2(a, b) == IF a < b THEN a ELSE b
Max2(a, b) == IF a > b THEN a ELSE b

RECURSIVE SeqMin(_)
SeqMin(s) == IF Len(s) = 1 THEN s[1] ELSE Min2(s[1], SeqMin(Tail(s)))

RECURSIVE SeqMax(_)
SeqMax(s) == IF Len(s) = 1 THEN s[1] ELSE Max2(s[1], SeqMax(Tail(s)))

\* Math.pow(a.x - b.x, 2) + Math.pow(a.y - b.y, 2)
Dist2(a, b) == (a.x - b.x) * (a.x - b.x) + (a.y - b.y) * (a.y - b.y)

\* Math.sqrt of a perfect square
RECURSIVE SqrtFrom(_, _)
SqrtFrom(n, r) == IF r * r >= n THEN r ELSE SqrtFrom(n, r + 1)
Sqrt(n) == SqrtFrom(n, 0)

\* distance(a, b); exact when the two points lie on an axis-parallel line or
\* span a Pythagorean triple
distance(a, b) == Sqrt(Dist2(a, b))

\* Math.ceil(n / d) for n >= 0, d > 0
CeilDiv(n, d) == (n + d - 1) \div d

\* Math.ceil(Math.sqrt(n2) / d): the least k with (k * d)^2 >= n2
RECURSIVE CeilSqrtDivFrom(_, _, _)
CeilSqrtDivFrom(n2, d, k) == IF (k * d) * (k * d) >= n2 THEN k ELSE CeilSqrtDivFrom(n2, d, k + 1)
CeilSqrtDiv(n2, d) == CeilSqrtDivFrom(n2, d, 0)

screenToWorld(point, v) ==
    Pt((point.x - v.x) \div v.scale, (point.y - v.y) \div v.scale)

worldToScreen(point, v) ==
    Pt(point.x * v.scale + v.x, point.y * v.scale + v.y)

\* isPointNearLine: |cross| / len < threshold is compared on squares
isPointNearLine(p, a, b, threshold) ==
    LET len2 == Dist2(a, b)
        cross == (b.y - a.y) * p.x - (b.x - a.x) * p.y + b.x * a.y - b.y * a.x
    IN  IF len2 = 0 THEN Dist2(p, a) < threshold * threshold
        ELSE /\ cross * cross < threshold * threshold * len2
             /\ p.x >= Min2(a.x, b.x) - threshold
             /\ p.x <= Max2(a.x, b.x) + threshold
             /\ p.y >= Min2(a.y, b.y) - threshold
             /\ p.y <= Max2(a.y, b.y) + threshold

\* twice getTriangleArea
TriangleArea2(p1, p2, p3) ==
    Abs(p1.x * (p2.y - p3.y) + p2.x * (p3.y - p1.y) + p3.x * (p1.y - p2.y))

\* isPointInTriangle: |areaOrig - (area1 + area2 + area3)| < 1, on doubled areas
isPointInTriangle(p, p1, p2, p3) ==
    Abs(TriangleArea2(p1, p2, p3)
        - (TriangleArea2(p, p2, p3) + TriangleArea2(p1, p, p3) + TriangleArea2(p1, p2, p))) < 2

\* interpolatePoints(p1, p2, spacing): steps points from p1 up to, not
\* including, p2
interpolatePoints(p1, p2, spacing) ==
    LET steps == CeilSqrtDiv(Dist2(p1, p2), spacing)
    IN  [k \in 1..steps |->
            Pt(p1.x + ((p2.x - p1.x) * (k - 1)) \div steps,
               p1.y + ((p2.y - p1.y) * (k - 1)) \div steps)]

RECURSIVE PencilOutline(_, _, _)
PencilOutline(pts, spacing, k) ==
    IF k >= Len(pts) THEN <<>>
    ELSE interpolatePoints(pts[k], pts[k + 1], spacing) \o PencilOutline(pts, spacing, k + 1)

\* convertShapeToPoints without the closing points.push(p1) of lines 160, 166
convertShapeToPoints_Open(el, spacing) ==
    CASE el.type = "pencil" ->
            PencilOutline(el.points, spacing, 1) \o << el.points[Len(el.points)] >>
      [] el.type \in {"rectangle", "image"} ->
            LET p1 == Pt(el.x, el.y)
                p2 == Pt(el.x + el.width, el.y)
                p3 == Pt(el.x + el.width, el.y + el.height)
                p4 == Pt(el.x, el.y + el.height)
            IN  interpolatePoints(p1, p2, spacing) \o interpolatePoints(p2, p3, spacing)
                \o interpolatePoints(p3, p4, spacing) \o interpolatePoints(p4, p1, spacing)
      [] el.type = "triangle" ->
            interpolatePoints(el.p1, el.p2, spacing) \o interpolatePoints(el.p2, el.p3, spacing)
            \o interpolatePoints(el.p3, el.p1, spacing)
      [] el.type = "arrow" ->
            interpolatePoints(Pt(el.x, el.y), Pt(el.endX, el.endY), spacing)
            \o << Pt(el.endX, el.endY) >>

\* convertShapeToPoints(el, spacing); circles are not part of the model (their
\* outline is sampled with Math.cos / Math.sin)
convertShapeToPoints(el, spacing) ==
    CASE el.type = "pencil" ->
            \* points[points.length - 1] of an empty list is undefined
            PencilOutline(el.points, spacing, 1) \o << el.points[Len(el.points)] >>
      [] el.type \in {"rectangle", "image"} ->
            LET p1 == Pt(el.x, el.y)
                p2 == Pt(el.x + el.width, el.y)
                p3 == Pt(el.x + el.width, el.y + el.height)
                p4 == Pt(el.x, el.y + el.height)
            IN  interpolatePoints(p1, p2, spacing) \o interpolatePoints(p2, p3, spacing)
                \o interpolatePoints(p3, p4, spacing) \o interpolatePoints(p4, p1, spacing)
                \o << p1 >>
      [] el.type = "triangle" ->
            interpolatePoints(el.p1, el.p2, spacing) \o interpolatePoints(el.p2, el.p3, spacing)
            \o interpolatePoints(el.p3, el.p1, spacing) \o << el.p1 >>
      [] el.type = "arrow" ->
            interpolatePoints(Pt(el.x, el.y), Pt(el.endX, el.endY), spacing)
            \o << Pt(el.endX, el.endY) >>

\* the points updateBounds is fed in isElementRoughlyIntersecting
RoughPoints(el) ==
    CASE el.type = "pencil" -> el.points
      [] el.type \in {"rectangle", "image"} ->
            << Pt(el.x, el.y), Pt(el.x + el.width, el.y + el.height) >>
      [] el.type = "triangle" -> << el.p1, el.p2, el.p3 >>
      [] el.type = "arrow" -> << Pt(el.x, el.y), Pt(el.endX, el.endY) >>

\* isElementRoughlyIntersecting(el, eraser, radius); with no point fed the
\* bounds stay (Infinity, -Infinity) and every comparison is false
isElementRoughlyIntersecting(el, eraser, radius) ==
    LET ps == RoughPoints(el)
        xs == [k \in 1..Len(ps) |-> ps[k].x]
        ys == [k \in 1..Len(ps) |-> ps[k].y]
        \* el.strokeWidth || 2: a missing strokeWidth is modelled as 0
        padding == (IF el.strokeWidth = 0 THEN 2 ELSE el.strokeWidth) + radius
    IN  /\ Len(ps) > 0
        /\ eraser.x >= SeqMin(xs) - padding
        /\ eraser.x <= SeqMax(xs) + padding
        /\ eraser.y >= SeqMin(ys) - padding
        /\ eraser.y <= SeqMax(ys) + padding

(***************************************************************************)
(* utils/BoundsUtils                                                        *)
(***************************************************************************)
Bounds(a, b, c, d) == [minX |-> a, minY |-> b, maxX |-> c, maxY |-> d]

\* bounds of a rectangle that start at (x, y) and extend by |width| and
\* |height|, whatever their sign
getElementBounds_Mirror(el) ==
    CASE el.type \in {"rectangle", "image"} ->
            Bounds(el.x, el.y, el.x + Abs(el.width), el.y + Abs(el.height))
      [] el.type = "circle" ->
            Bounds(el.x - el.radius, el.y - el.radius, el.x + el.radius, el.y + el.radius)
      [] el.type = "triangle" ->
            Bounds(SeqMin(<< el.p1.x, el.p2.x, el.p3.x >>), SeqMin(<< el.p1.y, el.p2.y, el.p3.y >>),
                   SeqMax(<< el.p1.x, el.p2.x, el.p3.x >>), SeqMax(<< el.p1.y, el.p2.y, el.p3.y >>))
      [] el.type = "arrow" ->
            Bounds(Min2(el.x, el.endX), Min2(el.y, el.endY), Max2(el.x, el.endX), Max2(el.y, el.endY))
      [] el.type = "pencil" -> Bounds(0, 0, 0, 0)

\* bounds that take the corner (x, y) and the corner opposite to it as they
\* come, without Math.min and Math.abs
getElementBounds_Raw(el) ==
    CASE el.type \in {"rectangle", "image"} ->
            Bounds(el.x, el.y, el.x + el.width, el.y + el.height)
      [] el.type = "circle" ->
            Bounds(el.x - el.radius, el.y - el.radius, el.x + el.radius, el.y + el.radius)
      [] el.type = "triangle" ->
            Bounds(SeqMin(<< el.p1.x, el.p2.x, el.p3.x >>), SeqMin(<< el.p1.y, el.p2.y, el.p3.y >>),
                   SeqMax(<< el.p1.x, el.p2.x, el.p3.x >>), SeqMax(<< el.p1.y, el.p2.y, el.p3.y >>))
      [] el.type = "arrow" -> Bounds(el.x, el.y, el.endX, el.endY)
      [] el.type = "pencil" ->
            IF Len(el.points) = 0 THEN Bounds(0, 0, 0, 0)
            ELSE Bounds(el.points[1].x, el.points[1].y,
                        el.points[Len(el.points)].x, el.points[Len(el.points)].y)

getElementBounds(el) ==
    CASE el.type \in {"rectangle", "image"} ->
            LET bx == Min2(el.x, el.x + el.width)
                by == Min2(el.y, el.y + el.height)
            IN  Bounds(bx, by, bx + Abs(el.width), by + Abs(el.height))
      [] el.type = "circle" ->
            Bounds(el.x - el.radius, el.y - el.radius, el.x + el.radius, el.y + el.radius)
      [] el.type = "triangle" ->
            Bounds(SeqMin(<< el.p1.x, el.p2.x, el.p3.x >>), SeqMin(<< el.p1.y, el.p2.y, el.p3.y >>),
                   SeqMax(<< el.p1.x, el.p2.x, el.p3.x >>), SeqMax(<< el.p1.y, el.p2.y, el.p3.y >>))
      [] el.type = "arrow" ->
            Bounds(Min2(el.x, el.endX), Min2(el.y, el.endY), Max2(el.x, el.endX), Max2(el.y, el.endY))
      [] el.type = "pencil" ->
            IF Len(el.points) = 0 THEN Bounds(0, 0, 0, 0)
            ELSE LET xs == [k \in 1..Len(el.points) |-> el.points[k].x]
                     ys == [k \in 1..Len(el.points) |-> el.points[k].y]
                 IN  Bounds(SeqMin(xs), SeqMin(ys), SeqMax(xs), SeqMax(ys))

\* common bounds that are zero-sized bounds at the origin for the empty list
getCommonBounds_Zero(els) ==
    IF Len(els) = 0 THEN Some(Bounds(0, 0, 0, 0))
    ELSE LET b == [k \in 1..Len(els) |-> getElementBounds(els[k])]
         IN  Some(Bounds(SeqMin([k \in 1..Len(els) |-> b[k].minX]),
                         SeqMin([k \in 1..Len(els) |-> b[k].minY]),
                         SeqMax([k \in 1..Len(els) |-> b[k].maxX]),
                         SeqMax([k \in 1..Len(els) |-> b[k].maxY])))

\* common bounds that are the bounds of the last element
getCommonBounds_Last(els) ==
    IF Len(els) = 0 THEN None ELSE Some(getElementBounds(els[Len(els)]))

\* getCommonBounds(elements): null for the empty list; Math.min and Math.max
\* from Infinity and -Infinity over the bounds of the elements otherwise
getCommonBounds(els) ==
    IF Len(els) = 0 THEN None
    ELSE LET b == [k \in 1..Len(els) |-> getElementBounds(els[k])]
         IN  Some(Bounds(SeqMin([k \in 1..Len(els) |-> b[k].minX]),
                         SeqMin([k \in 1..Len(els) |-> b[k].minY]),
                         SeqMax([k \in 1..Len(els) |-> b[k].maxX]),
                         SeqMax([k \in 1..Len(els) |-> b[k].maxY])))

isPointInBounds(p, b, padding) ==
    /\ p.x >= b.minX - padding /\ p.x <= b.maxX + padding
    /\ p.y >= b.minY - padding /\ p.y <= b.maxY + padding

doBoundsIntersect(b1, b2) ==
    ~(b2.minX > b1.maxX \/ b2.maxX < b1.minX \/ b2.minY > b1.maxY \/ b2.maxY < b1.minY)

\* a hit test whose threshold is 10 at every zoom
hitTestElement_FixedThreshold(el, pos, zoom) ==
    LET threshold == 10
    IN  CASE el.type \in {"rectangle", "image"} ->
                LET bx == Min2(el.x, el.x + el.width)
                    by == Min2(el.y, el.y + el.height)
                IN  /\ pos.x >= bx /\ pos.x <= bx + Abs(el.width)
                    /\ pos.y >= by /\ pos.y <= by + Abs(el.height)
          [] el.type = "circle" -> Dist2(pos, Pt(el.x, el.y)) <= el.radius * el.radius
          [] el.type = "triangle" -> isPointInTriangle(pos, el.p1, el.p2, el.p3)
          [] el.type = "arrow" ->
                isPointNearLine(pos, Pt(el.x, el.y), Pt(el.endX, el.endY), threshold)
          [] el.type = "pencil" ->
                /\ isPointInBounds(pos, getElementBounds(el), threshold)
                /\ \E k \in 1..(Len(el.points) - 1) :
                       isPointNearLine(pos, el.points[k], el.points[k + 1], threshold)

\* hitTestElement(el, pos, zoom); threshold = 10 / zoom
hitTestElement(el, pos, zoom) ==
    LET threshold == 10 \div zoom
    IN  CASE el.type \in {"rectangle", "image"} ->
                LET bx == Min2(el.x, el.x + el.width)
                    by == Min2(el.y, el.y + el.height)
                IN  /\ pos.x >= bx /\ pos.x <= bx + Abs(el.width)
                    /\ pos.y >= by /\ pos.y <= by + Abs(el.height)
          [] el.type = "circle" -> Dist2(pos, Pt(el.x, el.y)) <= el.radius * el.radius
          [] el.type = "triangle" -> isPointInTriangle(pos, el.p1, el.p2, el.p3)
          [] el.type = "arrow" ->
                isPointNearLine(pos, Pt(el.x, el.y), Pt(el.endX, el.endY), threshold)
          [] el.type = "pencil" ->
                /\ isPointInBounds(pos, getElementBounds(el), threshold)
                /\ \E k \in 1..(Len(el.points) - 1) :
                       isPointNearLine(pos, el.points[k], el.points[k + 1], threshold)

(***************************************************************************)
(* components/Whiteboard: constants and the eraser                          *)
(***************************************************************************)
ERASER_RADIUS == 20
ERASE_SPACING == 5
HANDLE_RADIUS == 15

\* a walk that closes the run at a point within the radius and opens the
\* next run with that point
RECURSIVE WalkPoints_KeepNear(_, _, _, _, _, _)
WalkPoints_KeepNear(points, k, worldPos, radius, newSegments, currentSegment) ==
    IF k > Len(points)
        THEN IF Len(currentSegment) > 0 THEN Append(newSegments, currentSegment) ELSE newSegments
    ELSE IF Dist2(points[k], worldPos) > radius * radius
        THEN WalkPoints_KeepNear(points, k + 1, worldPos, radius, newSegments,
                                 Append(currentSegment, points[k]))
    ELSE IF Len(currentSegment) > 0
        THEN WalkPoints_KeepNear(points, k + 1, worldPos, radius,
                                 Append(newSegments, currentSegment), << points[k] >>)
    ELSE WalkPoints_KeepNear(points, k + 1, worldPos, radius, newSegments, << points[k] >>)

\* a walk that does not close the run still open after the last point
RECURSIVE WalkPoints_NoTrailing(_, _, _, _, _, _)
WalkPoints_NoTrailing(points, k, worldPos, radius, newSegments, currentSegment) ==
    IF k > Len(points) THEN newSegments
    ELSE IF Dist2(points[k], worldPos) > radius * radius
        THEN WalkPoints_NoTrailing(points, k + 1, worldPos, radius, newSegments,
                                   Append(currentSegment, points[k]))
    ELSE IF Len(currentSegment) > 0
        THEN WalkPoints_NoTrailing(points, k + 1, worldPos, radius,
                                   Append(newSegments, currentSegment), <<>>)
    ELSE WalkPoints_NoTrailing(points, k + 1, worldPos, radius, newSegments, <<>>)

\* the runs of the walk over the outline: a point farther than radius from
\* the eraser joins the current run, any other point closes it
RECURSIVE WalkPoints(_, _, _, _, _, _)
WalkPoints(points, k, worldPos, radius, newSegments, currentSegment) ==
    IF k > Len(points)
        THEN IF Len(currentSegment) > 0 THEN Append(newSegments, currentSegment) ELSE newSegments
    ELSE IF Dist2(points[k], worldPos) > radius * radius
        THEN WalkPoints(points, k + 1, worldPos, radius, newSegments, Append(currentSegment, points[k]))
    ELSE IF Len(currentSegment) > 0
        THEN WalkPoints(points, k + 1, worldPos, radius, Append(newSegments, currentSegment), <<>>)
    ELSE WalkPoints(points, k + 1, worldPos, radius, newSegments, <<>>)

\* a loop body with neither the prefilter nor the test that keeps a shape
\* whose every point survived
EraseOne_AlwaysSplit(el, worldPos, scale) ==
    LET radius == ERASER_RADIUS \div scale
        points == convertShapeToPoints(el, ERASE_SPACING \div scale)
        newSegments == WalkPoints(points, 1, worldPos, radius, <<>>, <<>>)
    IN  [keep |-> FALSE, segs |-> SelectSeq(newSegments, LAMBDA seg : Len(seg) > 1)]

\* what performErase does with one shape: "keep", or the runs that replace it
EraseOne(el, worldPos, scale) ==
    LET radius == ERASER_RADIUS \div scale
    IN  IF ~isElementRoughlyIntersecting(el, worldPos, radius) THEN [keep |-> TRUE, segs |-> <<>>]
        ELSE LET points == convertShapeToPoints(el, ERASE_SPACING \div scale)
                 newSegments == WalkPoints(points, 1, worldPos, radius, <<>>, <<>>)
             IN  IF Len(newSegments) = 1 /\ Len(newSegments[1]) = Len(points)
                     THEN [keep |-> TRUE, segs |-> <<>>]
                     ELSE [keep |-> FALSE, segs |-> SelectSeq(newSegments, LAMBDA seg : Len(seg) > 1)]

\* Pencils that hold only the two ends of their runs
NewPencils_Ends(segs, el, ids, from) ==
    [k \in 1..Len(segs) |->
        [id |-> ids[from + k], type |-> "pencil", x |-> segs[k][1].x, y |-> segs[k][1].y,
         points |-> << segs[k][1], segs[k][Len(segs[k])] >>,
         strokeColor |-> el.strokeColor, strokeWidth |-> el.strokeWidth]]

\* the Pencils pushed for the runs of one erased shape, with ids[from + 1 ..]
NewPencils(segs, el, ids, from) ==
    [k \in 1..Len(segs) |->
        [id |-> ids[from + k], type |-> "pencil", x |-> segs[k][1].x, y |-> segs[k][1].y,
         points |-> segs[k], strokeColor |-> el.strokeColor, strokeWidth |-> el.strokeWidth]]

\* the loop of performErase with the new Pencils put below the shapes
\* pushed so far
RECURSIVE EraseList_Front(_, _, _, _, _, _)
EraseList_Front(currentList, k, worldPos, scale, ids, acc) ==
    IF k > Len(currentList) THEN acc
    ELSE LET r == EraseOne(currentList[k], worldPos, scale)
         IN  IF r.keep
                 THEN EraseList_Front(currentList, k + 1, worldPos, scale, ids,
                                      [acc EXCEPT !.newList = Append(@, currentList[k])])
                 ELSE EraseList_Front(currentList, k + 1, worldPos, scale, ids,
                                      [newList |-> NewPencils(r.segs, currentList[k], ids, acc.used) \o acc.newList,
                                       used |-> acc.used + Len(r.segs),
                                       hasChanges |-> TRUE])

RECURSIVE EraseList(_, _, _, _, _, _)
EraseList(currentList, k, worldPos, scale, ids, acc) ==
    IF k > Len(currentList) THEN acc
    ELSE LET r == EraseOne(currentList[k], worldPos, scale)
         IN  IF r.keep
                 THEN EraseList(currentList, k + 1, worldPos, scale, ids,
                                [acc EXCEPT !.newList = Append(@, currentList[k])])
                 ELSE EraseList(currentList, k + 1, worldPos, scale, ids,
                                [newList |-> acc.newList \o NewPencils(r.segs, currentList[k], ids, acc.used),
                                 used |-> acc.used + Len(r.segs),
                                 hasChanges |-> TRUE])

\* the number of generateId() calls performErase makes
EraseIdCount(worldPos, currentList, scale) ==
    LET Count[k \in 0..Len(currentList)] ==
            IF k = 0 THEN 0
            ELSE Count[k - 1] + Len(EraseOne(currentList[k], worldPos, scale).segs)
    IN  Count[Len(currentList)]

\* performErase(worldPos, currentList) at view.scale = scale; ids are the
\* values generateId() returns, in call order
performErase(worldPos, currentList, scale, ids) ==
    LET r == EraseList(currentList, 1, worldPos, scale, ids,
                       [newList |-> <<>>, used |-> 0, hasChanges |-> FALSE])
    IN  IF r.hasChanges THEN r.newList ELSE currentList

(***************************************************************************)
(* components/Whiteboard: the state a handler reads and writes, as one     *)
(* record.  A handler is a function from the state of the last render and  *)
(* the event to the state after it.  Values that may be null are held as a *)
(* sequence: <<>> is null and <<v>> is the value v.  The field "pushed" is *)
(* the list of arguments of the pushToHistory calls the handler made and   *)
(* "branch" names the branch it took.                                       *)
(***************************************************************************)
activeColor == "#000000"
activeStrokeWidth == 2

St == [history |-> history, currentIndex |-> currentIndex, view |-> view,
       activeTool |-> activeTool, isDragging |-> isDragging, isResizing |-> isResizing,
       isPanning |-> isPanning, dragStart |-> dragStart, selectedIds |-> selectedIds,
       selectionBox |-> selectionBox, currentLaserId |-> currentLaserId,
       triangleStep |-> triangleStep, currentElement |-> currentElement,
       tempElements |-> tempElements, dragOrigin |-> dragOrigin, dragOffset |-> dragOffset,
       activePointers |-> activePointers, pinchState |-> pinchState,
       pushed |-> <<>>, branch |-> "none"]

\* the elements of the render the handler closes over
ElementsOf(S) == At(S.history, S.currentIndex)

\* a pushToHistory call inside a handler: the stack is rebuilt from the
\* history and currentIndex of the closure S, whatever R has accumulated
Push(S, R, els) ==
    LET r == pushToHistory(S.history, S.currentIndex, els)
    IN  [R EXCEPT !.history = r.history, !.currentIndex = r.currentIndex,
                  !.pushed = Append(@, els)]

Has(ids, id) == \E k \in 1..Len(ids) : ids[k] = id

\* new Set(seq): first occurrences, in order
RECURSIVE Dedup(_)
Dedup(seq) ==
    IF Len(seq) = 0 THEN <<>>
    ELSE LET rest == Dedup(SubSeq(seq, 1, Len(seq) - 1))
         IN  IF Has(rest, seq[Len(seq)]) THEN rest ELSE Append(rest, seq[Len(seq)])

\* elements.find(e => e.id === id)
FindIndex(els, id) ==
    IF \E k \in 1..Len(els) : els[k].id = id
        THEN CHOOSE k \in 1..Len(els) : els[k].id = id /\ \A j \in 1..(k - 1) : els[j].id # id
        ELSE 0

\* a search from the bottom of the list
getElementAtPosition_First(S, worldPos) ==
    LET targetElements == IF S.tempElements # None THEN Val(S.tempElements) ELSE ElementsOf(S)
        hits == {k \in 1..Len(targetElements) : hitTestElement(targetElements[k], worldPos, S.view.scale)}
    IN  IF hits = {} THEN Null
        ELSE targetElements[CHOOSE k \in hits : \A j \in hits : k <= j].id

\* getElementAtPosition(worldPos): the topmost shape hit, or null
getElementAtPosition(S, worldPos) ==
    LET targetElements == IF S.tempElements # None THEN Val(S.tempElements) ELSE ElementsOf(S)
        hits == {k \in 1..Len(targetElements) : hitTestElement(targetElements[k], worldPos, S.view.scale)}
    IN  IF hits = {} THEN Null
        ELSE targetElements[CHOOSE k \in hits : \A j \in hits : j <= k].id

Near(a, b, scale) == Dist2(a, b) < (HANDLE_RADIUS \div scale) * (HANDLE_RADIUS \div scale)

\* the resize handle of el under worldPos, or null
HandleAt(el, worldPos, scale) ==
    CASE el.type \in {"rectangle", "image"} ->
            IF Near(worldPos, Pt(el.x + el.width, el.y + el.height), scale) THEN "rect-br" ELSE Null
      [] el.type = "arrow" ->
            IF Near(worldPos, Pt(el.x, el.y), scale) THEN "arrow-start"
            ELSE IF Near(worldPos, Pt(el.endX, el.endY), scale) THEN "arrow-end" ELSE Null
      [] el.type = "triangle" ->
            IF Near(worldPos, el.p1, scale) THEN "tri-1"
            ELSE IF Near(worldPos, el.p2, scale) THEN "tri-2"
            ELSE IF Near(worldPos, el.p3, scale) THEN "tri-3" ELSE Null
      [] OTHER -> Null

\* the resize handle the SELECT tool grabs at worldPos, or null
GrabbedHandle(S, worldPos) ==
    IF Len(S.selectedIds) # 1 THEN Null
    ELSE LET k == FindIndex(ElementsOf(S), S.selectedIds[1])
         IN  IF k = 0 THEN Null ELSE HandleAt(ElementsOf(S)[k], worldPos, S.view.scale)

\* the two positions of the active-pointer map
PinchPoints(ap) ==
    LET a == CHOOSE q \in DOMAIN ap : \A r \in DOMAIN ap : q <= r
        b == CHOOSE q \in DOMAIN ap : q # a
    IN  << ap[a], ap[b] >>

MidPoint(ps) == Pt((ps[1].x + ps[2].x) \div 2, (ps[1].y + ps[2].y) \div 2)

NewShape(tool, id, worldPos) ==
    CASE tool = "PENCIL" ->
            Some([id |-> id, type |-> "pencil", x |-> worldPos.x, y |-> worldPos.y,
                  points |-> << worldPos >>, strokeColor |-> activeColor, strokeWidth |-> activeStrokeWidth])
      [] tool = "RECTANGLE" ->
            Some([id |-> id, type |-> "rectangle", x |-> worldPos.x, y |-> worldPos.y,
                  width |-> 0, height |-> 0, strokeColor |-> activeColor, strokeWidth |-> activeStrokeWidth])
      [] tool = "ARROW" ->
            Some([id |-> id, type |-> "arrow", x |-> worldPos.x, y |-> worldPos.y,
                  endX |-> worldPos.x, endY |-> worldPos.y,
                  strokeColor |-> activeColor, strokeWidth |-> activeStrokeWidth])
      [] OTHER -> None

\* handlePointerDownV2(e); id and ids are what generateId() returns to the
\* handler and to performErase
handlePointerDownV2(S, e, id, ids) ==
    LET ap == (e.pointerId :> e.client) @@ S.activePointers
        S1 == [S EXCEPT !.activePointers = ap]
        worldPos == screenToWorld(e.client, S.view)
        els == ElementsOf(S)
    IN  IF Cardinality(DOMAIN ap) = 2 THEN
            LET pointers == PinchPoints(ap)
            IN  [S1 EXCEPT !.pinchState = Some([initialDist |-> distance(pointers[1], pointers[2]),
                                                initialScale |-> S.view.scale,
                                                worldMid |-> screenToWorld(MidPoint(pointers), S.view)]),
                           !.isPanning = FALSE, !.isDragging = FALSE, !.selectionBox = None,
                           !.branch = "pinch"]
        ELSE IF S.activeTool = "HAND" \/ e.middle THEN
            [S1 EXCEPT !.isPanning = TRUE, !.dragStart = e.client, !.branch = "pan"]
        ELSE IF S.activeTool = "ERASER" THEN
            [S1 EXCEPT !.isDragging = TRUE,
                       !.tempElements = Some(performErase(worldPos, els, S.view.scale, ids)),
                       !.branch = "erase"]
        ELSE IF S.activeTool = "LASER" THEN
            [S1 EXCEPT !.currentLaserId = id, !.branch = "laser"]
        ELSE IF S.activeTool = "SELECT" THEN
            LET handle == GrabbedHandle(S, worldPos)
                hitId == getElementAtPosition(S, worldPos)
            IN  IF handle # Null THEN [S1 EXCEPT !.isResizing = handle, !.branch = "resize"]
                ELSE IF hitId # Null THEN
                    [S1 EXCEPT !.selectedIds =
                                    IF e.shiftKey
                                        THEN IF Has(S.selectedIds, hitId)
                                                 THEN SelectSeq(S.selectedIds, LAMBDA i : i # hitId)
                                                 ELSE Append(S.selectedIds, hitId)
                                        ELSE IF Has(S.selectedIds, hitId) THEN S.selectedIds ELSE << hitId >>,
                               !.isDragging = TRUE, !.dragOrigin = Some(worldPos),
                               !.dragOffset = Pt(0, 0), !.branch = "drag"]
                ELSE [S1 EXCEPT !.selectedIds = IF e.shiftKey THEN S.selectedIds ELSE <<>>,
                                !.selectionBox = Some([start |-> worldPos, end |-> worldPos]),
                                !.branch = "box"]
        ELSE IF S.activeTool = "TRIANGLE" THEN
            IF S.currentElement = None THEN
                [S1 EXCEPT !.currentElement =
                                Some([id |-> id, type |-> "triangle", x |-> worldPos.x, y |-> worldPos.y,
                                      p1 |-> worldPos, p2 |-> worldPos, p3 |-> worldPos,
                                      strokeColor |-> activeColor, strokeWidth |-> activeStrokeWidth]),
                           !.triangleStep = 1, !.branch = "triangle"]
            ELSE LET tri == Val(S.currentElement)
                 IN  IF S.triangleStep = 1 THEN
                         [S1 EXCEPT !.currentElement = Some([tri EXCEPT !.p2 = worldPos, !.p3 = worldPos]),
                                    !.triangleStep = 2, !.branch = "triangle"]
                     ELSE IF S.triangleStep = 2 THEN
                         [Push(S, S1, Append(els, [tri EXCEPT !.p3 = worldPos]))
                             EXCEPT !.currentElement = None, !.triangleStep = 0, !.branch = "triangle"]
                     ELSE [S1 EXCEPT !.branch = "triangle"]
        ELSE LET newEl == NewShape(S.activeTool, id, worldPos)
             IN  IF newEl # None THEN [S1 EXCEPT !.currentElement = newEl, !.branch = "draw"]
                 ELSE S1

ZOOM_MAX == 10

\* the view a pinch move sets; the scale is a whole number here
\* (Math.max(., ZOOM_MIN) leaves a scale of 1 or more alone)
PinchView(ap, pinch) ==
    LET pointers == PinchPoints(ap)
        newDist == distance(pointers[1], pointers[2])
        midPoint == MidPoint(pointers)
        newScale == Min2((pinch.initialScale * newDist) \div pinch.initialDist, ZOOM_MAX)
    IN  [x |-> midPoint.x - pinch.worldMid.x * newScale,
         y |-> midPoint.y - pinch.worldMid.y * newScale,
         scale |-> newScale]

\* the events whose pinch arithmetic is exact in whole numbers
PinchExact(ap, pinch) ==
    LET pointers == PinchPoints(ap)
        newDist == distance(pointers[1], pointers[2])
    IN  /\ pinch.initialDist > 0
        /\ (pinch.initialScale * newDist) % pinch.initialDist = 0
        /\ (pinch.initialScale * newDist) \div pinch.initialDist >= 1
        /\ (pointers[1].x + pointers[2].x) % 2 = 0
        /\ (pointers[1].y + pointers[2].y) % 2 = 0

\* the shape a resize move makes of el
Resized(el, handle, worldPos) ==
    IF handle = "rect-br" /\ el.type \in {"rectangle", "image"}
        THEN [el EXCEPT !.width = worldPos.x - el.x, !.height = worldPos.y - el.y]
    ELSE IF handle = "arrow-start" /\ el.type = "arrow"
        THEN [el EXCEPT !.x = worldPos.x, !.y = worldPos.y]
    ELSE IF handle = "arrow-end" /\ el.type = "arrow"
        THEN [el EXCEPT !.endX = worldPos.x, !.endY = worldPos.y]
    ELSE IF handle = "tri-1" /\ el.type = "triangle" THEN [el EXCEPT !.p1 = worldPos]
    ELSE IF handle = "tri-2" /\ el.type = "triangle" THEN [el EXCEPT !.p2 = worldPos]
    ELSE IF handle = "tri-3" /\ el.type = "triangle" THEN [el EXCEPT !.p3 = worldPos]
    ELSE el

\* the ids of the shapes whose bounds meet the selection box, in list order
BoxSelected(els, a, b) ==
    LET boxBounds == [minX |-> Min2(a.x, b.x), minY |-> Min2(a.y, b.y),
                      maxX |-> Max2(a.x, b.x), maxY |-> Max2(a.y, b.y)]
        inBox == SelectSeq(els, LAMBDA el : doBoundsIntersect(boxBounds, getElementBounds(el)))
    IN  Dedup([k \in 1..Len(inBox) |-> inBox[k].id])

\* the shape being drawn after a move to worldPos
Drawn(el, step, worldPos) ==
    CASE el.type = "pencil" -> [el EXCEPT !.points = Append(@, worldPos)]
      [] el.type = "rectangle" -> [el EXCEPT !.width = worldPos.x - el.x, !.height = worldPos.y - el.y]
      [] el.type = "arrow" -> [el EXCEPT !.endX = worldPos.x, !.endY = worldPos.y]
      [] el.type = "triangle" ->
            IF step = 1 THEN [el EXCEPT !.p2 = worldPos, !.p3 = worldPos]
            ELSE IF step = 2 THEN [el EXCEPT !.p3 = worldPos]
            ELSE el
      [] OTHER -> el

\* handlePointerMoveV2(e)
handlePointerMoveV2(S, e, ids) ==
    LET ap == (e.pointerId :> e.client) @@ S.activePointers
        S1 == [S EXCEPT !.activePointers = ap]
        worldPos == screenToWorld(e.client, S.view)
        els == ElementsOf(S)
    IN  IF Cardinality(DOMAIN ap) = 2 /\ S.pinchState # None THEN
            [S1 EXCEPT !.view = PinchView(ap, Val(S.pinchState)), !.branch = "pinch"]
        ELSE IF S.activeTool = "ERASER" /\ S.isDragging THEN
            IF S.tempElements # None
                THEN [S1 EXCEPT !.tempElements =
                                    Some(performErase(worldPos, Val(S.tempElements), S.view.scale, ids)),
                                !.branch = "erase"]
                ELSE [S1 EXCEPT !.branch = "erase"]
        ELSE IF S.activeTool = "LASER" /\ S.currentLaserId # Null THEN
            [S1 EXCEPT !.branch = "laser"]
        ELSE IF S.isPanning THEN
            [S1 EXCEPT !.view = [@ EXCEPT !.x = @ + e.client.x - S.dragStart.x,
                                          !.y = @ + e.client.y - S.dragStart.y],
                       !.dragStart = e.client, !.branch = "pan"]
        ELSE IF S.isResizing # Null THEN
            LET targetId == IF Len(S.selectedIds) > 0 THEN S.selectedIds[1] ELSE Undefined
            IN  [S1 EXCEPT !.tempElements =
                                Some([k \in 1..Len(els) |->
                                        IF els[k].id # targetId THEN els[k]
                                        ELSE Resized(els[k], S.isResizing, worldPos)]),
                           !.branch = "resize"]
        ELSE IF S.selectionBox # None THEN
            [S1 EXCEPT !.selectionBox = Some([Val(S.selectionBox) EXCEPT !.end = worldPos]),
                       !.selectedIds = BoxSelected(els, Val(S.selectionBox).start, worldPos),
                       !.branch = "box"]
        ELSE IF S.isDragging /\ S.dragOrigin # None THEN
            [S1 EXCEPT !.dragOffset = Pt(worldPos.x - Val(S.dragOrigin).x, worldPos.y - Val(S.dragOrigin).y),
                       !.branch = "drag"]
        ELSE IF S.currentElement # None THEN
            [S1 EXCEPT !.currentElement = Some(Drawn(Val(S.currentElement), S.triangleStep, worldPos)),
                       !.branch = "draw"]
        ELSE S1

Shift(pt, d) == Pt(pt.x + d.x, pt.y + d.y)

\* the shape a committed move makes of el
Moved(el, d) ==
    CASE el.type = "pencil" -> [el EXCEPT !.points = [k \in 1..Len(el.points) |-> Shift(el.points[k], d)]]
      [] el.type = "arrow" -> [el EXCEPT !.x = @ + d.x, !.y = @ + d.y, !.endX = @ + d.x, !.endY = @ + d.y]
      [] el.type = "triangle" -> [el EXCEPT !.p1 = Shift(@, d), !.p2 = Shift(@, d), !.p3 = Shift(@, d)]
      [] OTHER -> [el EXCEPT !.x = @ + d.x, !.y = @ + d.y]

\* a rectangle drawn up or to the left, with its corner and sizes put right
Normalised(el) ==
    IF el.type = "rectangle"
        THEN [el EXCEPT !.x = IF el.width < 0 THEN el.x + el.width ELSE el.x,
                        !.width = Abs(el.width),
                        !.y = IF el.height < 0 THEN el.y + el.height ELSE el.y,
                        !.height = Abs(el.height)]
        ELSE el

\* the active-pointer map without pointerId
Without(ap, pointerId) == [q \in (DOMAIN ap) \ {pointerId} |-> ap[q]]

\* handlePointerUp(e), also bound to pointer-leave
handlePointerUp(S, e) ==
    LET ap == Without(S.activePointers, e.pointerId)
        els == ElementsOf(S)
        S1 == [S EXCEPT !.activePointers = ap,
                        !.pinchState = IF Cardinality(DOMAIN ap) < 2 THEN None ELSE @,
                        !.isPanning = FALSE, !.selectionBox = None, !.currentLaserId = Null]
    IN  IF S.isResizing # Null \/ S.tempElements # None THEN
            [Push(S, S1, IF S.tempElements # None THEN Val(S.tempElements) ELSE els)
                EXCEPT !.tempElements = None, !.isResizing = Null, !.branch = "commit"]
        ELSE
            LET moving == S.isDragging /\ S.dragOrigin # None
                S2 == IF moving
                        THEN LET R == IF S.dragOffset.x # 0 \/ S.dragOffset.y # 0
                                        THEN Push(S, S1, [k \in 1..Len(els) |->
                                                            IF Has(S.selectedIds, els[k].id)
                                                                THEN Moved(els[k], S.dragOffset)
                                                                ELSE els[k]])
                                        ELSE S1
                             IN  [R EXCEPT !.isDragging = FALSE, !.dragOrigin = None,
                                           !.dragOffset = Pt(0, 0), !.branch = "drag"]
                        ELSE S1
            IN  IF S.currentElement # None /\ S.activeTool # "TRIANGLE"
                    THEN [Push(S, S2, Append(els, Normalised(Val(S.currentElement))))
                            EXCEPT !.currentElement = None, !.branch = "draw"]
                    ELSE S2

\* handlePointerCancel(e) leaving the pinch state as it was
handlePointerCancel_KeepPinch(S, e) ==
    [S EXCEPT !.activePointers = Without(S.activePointers, e.pointerId),
              !.isPanning = FALSE, !.isDragging = FALSE, !.selectionBox = None,
              !.currentElement = None, !.tempElements = None, !.branch = "cancel"]

\* handlePointerCancel(e)
handlePointerCancel(S, e) ==
    LET ap == Without(S.activePointers, e.pointerId)
    IN  [S EXCEPT !.activePointers = ap,
                  !.pinchState = IF Cardinality(DOMAIN ap) < 2 THEN None ELSE @,
                  !.isPanning = FALSE, !.isDragging = FALSE, !.selectionBox = None,
                  !.currentElement = None, !.tempElements = None, !.branch = "cancel"]

\* deleteSelected()
deleteSelected(S) ==
    IF Len(S.selectedIds) > 0
        THEN [Push(S, S, SelectSeq(ElementsOf(S), LAMBDA el : ~Has(S.selectedIds, el.id)))
                EXCEPT !.selectedIds = <<>>]
        ELSE S

\* handleKeyDown(e) for the keys that are bound; a tool key is e.key, the
\* others are named after what the handler does with them
ToolKeys == [v |-> "SELECT", h |-> "HAND", p |-> "PENCIL", l |-> "LASER", e |-> "ERASER"]

handleKeyDown(S, key) ==
    CASE key = "ctrl+z" -> [S EXCEPT !.currentIndex = undoIndex(S.history, S.currentIndex)]
      [] key = "ctrl+y" -> [S EXCEPT !.currentIndex = redoIndex(S.history, S.currentIndex)]
      [] key = "ctrl+a" -> [S EXCEPT !.selectedIds =
                                Dedup([k \in 1..Len(ElementsOf(S)) |-> ElementsOf(S)[k].id])]
      [] key = "Delete" -> deleteSelected(S)
      [] key = "Escape" -> [S EXCEPT !.selectedIds = <<>>, !.selectionBox = None]
      [] key \in DOMAIN ToolKeys -> [S EXCEPT !.activeTool = ToolKeys[key]]
      [] OTHER -> S

(***************************************************************************)
(* The variant of the component (unnamed/part_003).  It has no dragOffset  *)
(* and no pointer-cancel handler; its pointer-down differs from the one    *)
(* above in one statement.                                                  *)
(***************************************************************************)
MIN_SIZE == 5

\* handlePointerDownV2(e) of the variant: the drawing tools also set dragOrigin
Variant_handlePointerDownV2(S, e, id, ids) ==
    LET R == handlePointerDownV2(S, e, id, ids)
    IN  IF R.branch \in {"draw", "none"}
            THEN [R EXCEPT !.dragOrigin = Some(screenToWorld(e.client, S.view))]
            ELSE R

\* the shape being drawn by the variant after a move to worldPos
Variant_Drawn(el, tool, step, origin, worldPos) ==
    CASE tool = "PENCIL" -> [el EXCEPT !.points = Append(@, worldPos)]
      [] tool = "RECTANGLE" ->
            [x |-> Min2(origin.x, worldPos.x), y |-> Min2(origin.y, worldPos.y),
             width |-> Abs(origin.x - worldPos.x), height |-> Abs(origin.y - worldPos.y)]
                @@ el
      [] tool = "ARROW" ->
            [x |-> origin.x, y |-> origin.y, endX |-> worldPos.x, endY |-> worldPos.y] @@ el
      [] tool = "TRIANGLE" /\ step > 0 ->
            IF step = 1 THEN [el EXCEPT !.p2 = worldPos, !.p3 = worldPos]
                        ELSE [el EXCEPT !.p3 = worldPos]
      [] OTHER -> el

\* handlePointerMoveV2(e) of the variant
Variant_handlePointerMoveV2(S, e, ids) ==
    LET ap == (e.pointerId :> e.client) @@ S.activePointers
        S1 == [S EXCEPT !.activePointers = ap]
        worldPos == screenToWorld(e.client, S.view)
        els == ElementsOf(S)
    IN  IF Cardinality(DOMAIN ap) = 2 /\ S.pinchState # None THEN
            [S1 EXCEPT !.view = PinchView(ap, Val(S.pinchState)), !.branch = "pinch"]
        ELSE IF S.activeTool = "ERASER" /\ S.isDragging THEN
            [S1 EXCEPT !.tempElements =
                            Some(performErase(worldPos,
                                              IF S.tempElements # None THEN Val(S.tempElements) ELSE els,
                                              S.view.scale, ids)),
                       !.branch = "erase"]
        ELSE IF S.activeTool = "LASER" /\ S.currentLaserId # Null THEN
            [S1 EXCEPT !.branch = "laser"]
        ELSE IF S.isPanning THEN
            [S1 EXCEPT !.view = [@ EXCEPT !.x = @ + e.client.x - S.dragStart.x,
                                          !.y = @ + e.client.y - S.dragStart.y],
                       !.dragStart = e.client, !.branch = "pan"]
        ELSE IF S.isResizing # Null /\ Len(S.selectedIds) = 1 THEN
            [S1 EXCEPT !.tempElements =
                            Some([k \in 1..Len(els) |->
                                    IF els[k].id # S.selectedIds[1] THEN els[k]
                                    ELSE Resized(els[k], S.isResizing, worldPos)]),
                       !.branch = "resize"]
        ELSE IF S.isDragging /\ Len(S.selectedIds) > 0 /\ S.dragOrigin # None THEN
            LET d == Pt(worldPos.x - Val(S.dragOrigin).x, worldPos.y - Val(S.dragOrigin).y)
            IN  [S1 EXCEPT !.tempElements =
                                Some([k \in 1..Len(els) |->
                                        IF Has(S.selectedIds, els[k].id) THEN Moved(els[k], d) ELSE els[k]]),
                           !.branch = "drag"]
        ELSE IF S.selectionBox # None THEN
            [S1 EXCEPT !.selectionBox = Some([Val(S.selectionBox) EXCEPT !.end = worldPos]),
                       !.selectedIds = BoxSelected(els, Val(S.selectionBox).start, worldPos),
                       !.branch = "box"]
        ELSE IF S.currentElement # None /\ S.dragOrigin # None THEN
            [S1 EXCEPT !.currentElement =
                            Some(Variant_Drawn(Val(S.currentElement), S.activeTool, S.triangleStep,
                                               Val(S.dragOrigin), worldPos)),
                       !.branch = "draw"]
        ELSE S1

\* a drawn shape is large enough to be kept
Valid(el) ==
    /\ el.type = "rectangle" => ~(el.width < MIN_SIZE)
    /\ el.type = "arrow" => ~(Dist2(Pt(el.x, el.y), Pt(el.endX, el.endY)) < MIN_SIZE * MIN_SIZE)

\* handlePointerUp(e) of the variant, also bound to pointer-leave
Variant_handlePointerUp(S, e) ==
    LET ap == Without(S.activePointers, e.pointerId)
        els == ElementsOf(S)
        S1 == [S EXCEPT !.activePointers = ap,
                        !.pinchState = IF Cardinality(DOMAIN ap) < 2 THEN None ELSE @,
                        !.isPanning = FALSE, !.isDragging = FALSE, !.isResizing = Null,
                        !.dragOrigin = None]
        S2 == IF S.activeTool = "ERASER" /\ S.tempElements # None
                THEN [Push(S, S1, Val(S.tempElements)) EXCEPT !.tempElements = None]
                ELSE S1
        S3 == IF S.activeTool = "LASER" THEN [S2 EXCEPT !.currentLaserId = Null] ELSE S2
        S4 == IF S.selectionBox # None THEN [S3 EXCEPT !.selectionBox = None] ELSE S3
        S5 == IF S.tempElements # None
                THEN [Push(S, S4, Val(S.tempElements)) EXCEPT !.tempElements = None, !.branch = "commit"]
                ELSE S4
    IN  IF S.currentElement # None
            THEN IF S.activeTool = "TRIANGLE" /\ S.triangleStep # 0 THEN S5
                 ELSE LET S6 == IF Valid(Val(S.currentElement))
                                    THEN Push(S, S5, Append(els, Val(S.currentElement)))
                                    ELSE S5
                      IN  [S6 EXCEPT !.currentElement = None, !.branch = "draw"]
            ELSE S5

\* handleKeyDown(e) of the variant, for the keys that choose a tool
Variant_ToolKeys == [v |-> "SELECT", h |-> "HAND", r |-> "RECTANGLE", t |-> "TRIANGLE",
                     a |-> "ARROW", p |-> "PENCIL", l |-> "LASER", e |-> "ERASER"]

Variant_handleKeyDown(S, key) ==
    IF key \in DOMAIN Variant_ToolKeys THEN [S EXCEPT !.activeTool = Variant_ToolKeys[key]] ELSE S

(***************************************************************************)
(* The component after construction, and one action per event it handles.  *)
(***************************************************************************)
NoHop == [op |-> "none", h |-> <<>>, i |-> 0, arg |-> <<>>, ret |-> Null,
          canUndo |-> FALSE, canRedo |-> FALSE, nPush |-> 0, nUndoRedo |-> 0]

NoGesture == [phase |-> "idle", pid |-> 0, kind |-> "none", commits |-> 0]

NoVop == [op |-> "none", n |-> 0]

NoCall == [fn |-> "none"]

InitUi ==
    /\ view = [x |-> 0, y |-> 0, scale |-> 1]
    /\ activeTool = "SELECT"
    /\ isDragging = FALSE
    /\ isResizing = Null
    /\ isPanning = FALSE
    /\ dragStart = Pt(0, 0)
    /\ selectedIds = <<>>
    /\ selectionBox = None
    /\ currentLaserId = Null
    /\ triangleStep = 0
    /\ currentElement = None
    /\ tempElements = None
    /\ dragOrigin = None
    /\ dragOffset = Pt(0, 0)
    /\ activePointers = <<>>
    /\ pinchState = None
    /\ pressed = {}
    /\ g = [nCommits |-> 0, gest |-> NoGesture]

Init ==
    /\ history = << <<>> >>
    /\ currentIndex = 0
    /\ InitUi
    /\ hop = NoHop
    /\ scn = [step |-> 0, base |-> <<>>]
    /\ vop = NoVop
    /\ imports = <<>>
    /\ fcall = NoCall

\* the inputs of the events: screen positions on the line y = 0, PtStep
\* apart, and a view panned by no more than MaxPan
PtStep == 12 * ERASE_SPACING
MaxPan == PtStep * (MaxPts - 1)
PointerIds == 1..MaxPointers
ClientPts == {Pt(k * PtStep, 0) : k \in 0..(MaxPts - 1)}
PointerEvents == [pointerId : PointerIds, client : ClientPts, shiftKey : {FALSE}, middle : {FALSE}]
Ids == {"a"}
Keys == {"ctrl+z", "ctrl+a", "Delete", "v", "h", "e"}
ToolbarTools == {"RECTANGLE", "TRIANGLE"}

\* the state R is within the bounds of the specification
InBoundsOf(R, maxShapes) ==
    /\ \A k \in 1..Len(R.pushed) : Len(R.pushed[k]) <= maxShapes
    /\ R.tempElements # None => Len(Val(R.tempElements)) <= maxShapes
    /\ (R.currentElement # None /\ Val(R.currentElement).type = "pencil")
            => Len(Val(R.currentElement).points) <= MaxPencilPts
    /\ Abs(R.view.x) <= MaxPan
    /\ Abs(R.view.y) <= MaxPan

\* the state R is within the bounds of the specification
InBounds(R) == InBoundsOf(R, MaxShapes)

\* the render after a handler returned R
Render(R) ==
    /\ history' = R.history
    /\ currentIndex' = R.currentIndex
    /\ view' = R.view
    /\ activeTool' = R.activeTool
    /\ isDragging' = R.isDragging
    /\ isResizing' = R.isResizing
    /\ isPanning' = R.isPanning
    /\ dragStart' = R.dragStart
    /\ selectedIds' = R.selectedIds
    /\ selectionBox' = R.selectionBox
    /\ currentLaserId' = R.currentLaserId
    /\ triangleStep' = R.triangleStep
    /\ currentElement' = R.currentElement
    /\ tempElements' = R.tempElements
    /\ dragOrigin' = R.dragOrigin
    /\ dragOffset' = R.dragOffset
    /\ activePointers' = R.activePointers
    /\ pinchState' = R.pinchState

\* the render after a handler returned R, with lists of at most maxShapes
ApplyOn(R, maxShapes) == InBoundsOf(R, maxShapes) /\ Render(R)

Apply(R) == ApplyOn(R, MaxShapes)

Committed(R) == IF R.pushed # <<>> THEN 1 ELSE 0

\* the sequences of n ids generateId() can return
IdSeqs(n) == [1..n -> Ids]

\* the same over the values S
IdSeqsOf(S, n) == [1..n -> S]

\* The bookkeeping of gestures.  g.gest.phase is
\*   "open"      a single pointer went down and only it has acted since,
\*   "closed"    that pointer was released (or left),
\*   "pinched"   a second pointer went down while another was pressed, and
\*               only pointers have acted since,
\*   "released"  the last pressed pointer after that was released,
\*   "cancelled" a pointer-cancel arrived (for the pointer pid) and only
\*               pointers have moved or been released since,
\*   "idle"      otherwise.
\* kind is the branch the opening pointer-down took and commits counts the
\* events of the open gesture that pushed a snapshot.
Gesture(phase, pid, kind, commits) == [phase |-> phase, pid |-> pid, kind |-> kind, commits |-> commits]

Track(R, gest) == g' = [nCommits |-> g.nCommits + Committed(R), gest |-> gest]

Own(e) == g.gest.phase = "open" /\ g.gest.pid = e.pointerId

\* a pointer-down handled by the handler Down, with generateId() returning
\* values of idset and lists of at most maxShapes
DownStepOn(Down(_, _, _, _), e, idset, maxShapes) ==
    /\ e.pointerId \notin pressed
    /\ \E id \in idset :
        \E ids \in IdSeqsOf(idset, EraseIdCount(screenToWorld(e.client, view), elements, view.scale)) :
            LET R == Down(St, e, id, ids)
            IN  /\ ApplyOn(R, maxShapes)
                /\ Track(R, IF pressed = {}
                                THEN Gesture("open", e.pointerId, R.branch, Committed(R))
                                ELSE Gesture("pinched", 0, "none", 0))
    /\ pressed' = pressed \cup {e.pointerId}
    /\ UNCHANGED <<hop, scn, vop, fcall, imports>>

\* a pointer-down handled by the handler Down
DownStep(Down(_, _, _, _), e) == DownStepOn(Down, e, Ids, MaxShapes)

\* a pointer-move handled by the handler Move, which erases from the list
\* erased, with generateId() returning values of idset and lists of at most
\* maxShapes
MoveStepOn(Move(_, _, _), erased, e, idset, maxShapes) ==
    /\ (Cardinality(DOMAIN activePointers \cup {e.pointerId}) = 2 /\ pinchState # None)
            => PinchExact((e.pointerId :> e.client) @@ activePointers, Val(pinchState))
    /\ \E ids \in IdSeqsOf(idset, EraseIdCount(screenToWorld(e.client, view), erased, view.scale)) :
            LET R == Move(St, e, ids)
            IN  /\ ApplyOn(R, maxShapes)
                /\ Track(R, IF Own(e) THEN [g.gest EXCEPT !.commits = @ + Committed(R)]
                            ELSE IF g.gest.phase \in {"pinched", "cancelled"} THEN g.gest
                            ELSE NoGesture)
    /\ UNCHANGED <<pressed, hop, scn, vop, fcall, imports>>

\* a pointer-move handled by the handler Move, which erases from the list erased
MoveStep(Move(_, _, _), erased, e) == MoveStepOn(Move, erased, e, Ids, MaxShapes)

\* a pointer-up or pointer-leave handled by the handler Up, with lists of
\* at most maxShapes
UpStepOn(Up(_, _), e, maxShapes) ==
    /\ LET R == Up(St, e)
       IN  /\ ApplyOn(R, maxShapes)
           /\ Track(R, IF Own(e) THEN Gesture("closed", e.pointerId, "none", g.gest.commits + Committed(R))
                       ELSE IF g.gest.phase = "pinched"
                            THEN IF pressed \ {e.pointerId} = {}
                                    THEN Gesture("released", 0, "none", 0) ELSE g.gest
                       ELSE IF g.gest.phase = "cancelled" THEN g.gest
                       ELSE NoGesture)
    /\ pressed' = pressed \ {e.pointerId}
    /\ UNCHANGED <<hop, scn, vop, fcall, imports>>

\* a pointer-up or pointer-leave handled by the handler Up
UpStep(Up(_, _), e) == UpStepOn(Up, e, MaxShapes)

\* a key handled by the handler Key
KeyStep(Key(_, _), key) ==
    /\ LET R == Key(St, key)
       IN  /\ Apply(R)
           /\ Track(R, NoGesture)
    /\ UNCHANGED <<pressed, hop, scn, vop, fcall, imports>>

PointerDown(e) == DownStep(handlePointerDownV2, e)

PointerMove(e) == MoveStep(handlePointerMoveV2, IF tempElements # None THEN Val(tempElements) ELSE <<>>, e)

PointerUp(e) == UpStep(handlePointerUp, e)

PointerCancel(e) ==
    /\ e.pointerId \in pressed
    /\ LET R == handlePointerCancel(St, e)
       IN  /\ Apply(R)
           /\ Track(R, Gesture("cancelled", e.pointerId, "none", 0))
    /\ pressed' = pressed \ {e.pointerId}
    /\ UNCHANGED <<hop, scn, vop, fcall, imports>>

KeyDown(key) == KeyStep(handleKeyDown, key)

\* a tool button of the Toolbar
ToolbarClick(tool) ==
    /\ LET R == [St EXCEPT !.activeTool = tool]
       IN  /\ Apply(R)
           /\ Track(R, NoGesture)
    /\ UNCHANGED <<pressed, hop, scn, vop, fcall, imports>>

Variant_PointerDown(e) == DownStep(Variant_handlePointerDownV2, e)

Variant_PointerMove(e) ==
    MoveStep(Variant_handlePointerMoveV2,
             IF activeTool = "ERASER" /\ isDragging
                THEN IF tempElements # None THEN Val(tempElements) ELSE elements
                ELSE <<>>, e)

Variant_PointerUp(e) == UpStep(Variant_handlePointerUp, e)

Variant_KeyDown(key) == KeyStep(Variant_handleKeyDown, key)

\* the events of the pointers pids, the keys and the toolbar buttons tools
NextOn(pids, keys, tools) ==
    \/ \E e \in PointerEvents : e.pointerId \in pids /\ PointerDown(e)
    \/ \E e \in PointerEvents : e.pointerId \in pids /\ PointerMove(e)
    \/ \E e \in PointerEvents : e.pointerId \in pids /\ PointerUp(e)
    \/ \E e \in PointerEvents : e.pointerId \in pids /\ PointerCancel(e)
    \/ \E key \in keys : KeyDown(key)
    \/ \E tool \in tools : ToolbarClick(tool)

Next == NextOn(PointerIds, Keys, ToolbarTools) /\ g'.nCommits <= MaxCommits

Spec == Init /\ [][Next]_vars

\* The pointers pids used one gesture after the other: a pointer goes down
\* at one of the positions downs; a pointer of hover (a mouse) moves and
\* leaves whether it is pressed or not, the others (fingers) move and are
\* released only while they are pressed; the tools are chosen on the toolbar
\* while no pointer is pressed.
NextQuiet(pids, hover, downs, tools, maxCommits) ==
    \/ \E e \in PointerEvents :
            e.pointerId \in pids /\ e.client \in downs /\ PointerDown(e) /\ g'.nCommits <= maxCommits
    \/ \E e \in PointerEvents :
            e.pointerId \in pids \cap (pressed \cup hover) /\ PointerMove(e) /\ g'.nCommits <= maxCommits
    \/ \E e \in PointerEvents :
            e.pointerId \in pids \cap (pressed \cup hover) /\ PointerUp(e) /\ g'.nCommits <= maxCommits
    \/ \E e \in PointerEvents : e.pointerId \in pids /\ PointerCancel(e)
    \/ \E tool \in tools : pressed = {} /\ ToolbarClick(tool)

\* a mouse, pressed at the origin and moved from there
SoloTools == {"SELECT", "ERASER", "RECTANGLE", "TRIANGLE"}
NextSolo == NextQuiet({1}, {1}, {Pt(0, 0)}, SoloTools, MaxSoloCommits)
SpecSolo == Init /\ [][NextSolo]_vars

\* two fingers
DuoTools == {"SELECT", "HAND", "ERASER", "RECTANGLE"}
NextDuo == NextQuiet(PointerIds, {}, ClientPts, DuoTools, MaxDuoCommits)
SpecDuo == Init /\ [][NextDuo]_vars

\* a mouse that draws rectangles and selects, moves and resizes them,
\* pressed at any of the positions
MaxResizeCommits == 2
ResizeTools == {"SELECT", "RECTANGLE"}
NextResize == NextQuiet({1}, {1}, ClientPts, ResizeTools, MaxResizeCommits)
SpecResize == Init /\ [][NextResize]_vars

(***************************************************************************)
(* Image import.  handleImageUpload starts reading the file and returns;   *)
(* reader.onload and then img.onload run later, after any number of other  *)
(* events, inside the closure of the render in which the file was chosen:  *)
(* its elements, its view and its pushToHistory.                            *)
(***************************************************************************)
MaxImports == 1

\* window.innerWidth, window.innerHeight and the natural sizes of the images
Window == [innerWidth |-> 120, innerHeight |-> 80]
ImageSizes == { [width |-> 120, height |-> 60] }

\* the ImageElement img.onload builds in the render of view v
NewImage(id, img, v) ==
    LET center == screenToWorld(Pt(Window.innerWidth \div 2, Window.innerHeight \div 2), v)
        \* (window.innerWidth * 0.4) / img.width, applied to width and height
        width == (Window.innerWidth * 2) \div 5
        height == (img.height * width) \div img.width
    IN  [id |-> id, type |-> "image", x |-> center.x - width \div 2, y |-> center.y - height \div 2,
         width |-> width, height |-> height, strokeColor |-> Null, strokeWidth |-> 0]

\* handleImageUpload(e): a file was chosen
ImageChosen ==
    /\ Len(imports) < MaxImports
    /\ \E img \in ImageSizes :
           imports' = Append(imports, [history |-> history, currentIndex |-> currentIndex,
                                       view |-> view, img |-> img])
    /\ UNCHANGED <<history, currentIndex, uiVars, pressed, g, hop, scn, vop, fcall>>

\* img.onload of the k-th load in flight, with generateId() returning id
ImageLoadedOn(k, id, maxShapes) ==
    LET c == imports[k]
        S == [St EXCEPT !.history = c.history, !.currentIndex = c.currentIndex, !.view = c.view]
        R == [Push(S, St, Append(ElementsOf(S), NewImage(id, c.img, c.view)))
                 EXCEPT !.selectedIds = << id >>]
    IN  /\ ApplyOn(R, maxShapes)
        /\ Track(R, g.gest)
        /\ imports' = SubSeq(imports, 1, k - 1) \o SubSeq(imports, k + 1, Len(imports))
        /\ UNCHANGED <<pressed, hop, scn, vop, fcall>>

\* a mouse that draws rectangles, selects, moves and resizes them and
\* erases, and an image import; generateId() returns one of two values and a
\* list holds at most two shapes
MaxBoardShapes == 2
MaxBoardCommits == 2
BoardIds == {"a", "b"}
BoardTools == {"SELECT", "RECTANGLE", "ERASER"}

NextBoard ==
    \/ \E e \in PointerEvents :
            /\ e.pointerId = 1
            /\ DownStepOn(handlePointerDownV2, e, BoardIds, MaxBoardShapes)
            /\ g'.nCommits <= MaxBoardCommits
    \/ \E e \in PointerEvents :
            /\ e.pointerId = 1
            /\ MoveStepOn(handlePointerMoveV2, IF tempElements # None THEN Val(tempElements) ELSE <<>>,
                          e, BoardIds, MaxBoardShapes)
            /\ g'.nCommits <= MaxBoardCommits
    \/ \E e \in PointerEvents :
            /\ e.pointerId = 1
            /\ UpStepOn(handlePointerUp, e, MaxBoardShapes)
            /\ g'.nCommits <= MaxBoardCommits
    \/ \E tool \in BoardTools : pressed = {} /\ ToolbarClick(tool)
    \/ ImageChosen
    \/ \E k \in 1..Len(imports) : \E id \in BoardIds :
            ImageLoadedOn(k, id, MaxBoardShapes) /\ g'.nCommits <= MaxBoardCommits

SpecBoard == Init /\ [][NextBoard]_vars

\* the variant under a mouse, pressed at the origin and moved from there,
\* with the tools chosen by key while the mouse is not pressed
VariantKeys == {"v", "e", "r", "t"}

NextVariant ==
    \/ \E e \in PointerEvents :
            e.pointerId = 1 /\ e.client = Pt(0, 0) /\ Variant_PointerDown(e) /\ g'.nCommits <= MaxVariantCommits
    \/ \E e \in PointerEvents : e.pointerId = 1 /\ Variant_PointerMove(e) /\ g'.nCommits <= MaxVariantCommits
    \/ \E e \in PointerEvents : e.pointerId = 1 /\ Variant_PointerUp(e) /\ g'.nCommits <= MaxVariantCommits
    \/ \E key \in VariantKeys : pressed = {} /\ Variant_KeyDown(key)

SpecVariant == Init /\ [][NextVariant]_vars

(***************************************************************************)
(* SpecHistory: the hook driven directly by push / undo / redo calls.      *)
(* The n-th push pushes the list Snap(n); the initial list is Snap(0).     *)
(***************************************************************************)
Snap(n) == << [id |-> n, type |-> "pencil", x |-> 0, y |-> 0, points |-> <<>>] >>

InitHistory ==
    /\ history = << Snap(0) >>
    /\ currentIndex = 0
    /\ hop = NoHop
    /\ scn = [step |-> 0, base |-> <<>>]
    /\ InitUi
    /\ vop = NoVop
    /\ imports = <<>>
    /\ fcall = NoCall

\* scenario tracker: a stack of 5 entries at index 4, then undo, undo, push
ScnNext(op) ==
    IF op = "undo" /\ scn.step = 0 /\ Len(history) = 5 /\ currentIndex = 4
        THEN [step |-> 1, base |-> history]
    ELSE IF op = "undo" /\ scn.step = 1 THEN [scn EXCEPT !.step = 2]
    ELSE IF op = "push" /\ scn.step = 2 THEN [scn EXCEPT !.step = 3]
    ELSE [step |-> 0, base |-> <<>>]

HPush ==
    /\ hop.nPush < MaxPush
    /\ LET L == Snap(hop.nPush + 1)
           r == pushToHistory(history, currentIndex, L)
       IN  /\ history' = r.history
           /\ currentIndex' = r.currentIndex
           /\ hop' = [op |-> "push", h |-> history, i |-> currentIndex, arg |-> L,
                      ret |-> Null, canUndo |-> canUndo, canRedo |-> canRedo,
                      nPush |-> hop.nPush + 1, nUndoRedo |-> hop.nUndoRedo]
    /\ scn' = ScnNext("push")
    /\ UNCHANGED <<uiVars, pressed, g, vop, fcall, imports>>

HUndo ==
    /\ hop.nUndoRedo < MaxUndoRedo
    /\ currentIndex' = undoIndex(history, currentIndex)
    /\ history' = history
    /\ hop' = [op |-> "undo", h |-> history, i |-> currentIndex, arg |-> <<>>,
               ret |-> undoReturn(history, currentIndex),
               canUndo |-> canUndo, canRedo |-> canRedo,
               nPush |-> hop.nPush, nUndoRedo |-> hop.nUndoRedo + 1]
    /\ scn' = ScnNext("undo")
    /\ UNCHANGED <<uiVars, pressed, g, vop, fcall, imports>>

HRedo ==
    /\ hop.nUndoRedo < MaxUndoRedo
    /\ currentIndex' = redoIndex(history, currentIndex)
    /\ history' = history
    /\ hop' = [op |-> "redo", h |-> history, i |-> currentIndex, arg |-> <<>>,
               ret |-> redoReturn(history, currentIndex),
               canUndo |-> canUndo, canRedo |-> canRedo,
               nPush |-> hop.nPush, nUndoRedo |-> hop.nUndoRedo + 1]
    /\ scn' = ScnNext("redo")
    /\ UNCHANGED <<uiVars, pressed, g, vop, fcall, imports>>

NextHistory == HPush \/ HUndo \/ HRedo

SpecHistory == InitHistory /\ [][NextHistory]_vars

(***************************************************************************)
(* The view in exact arithmetic.  A number is a fraction n / d in lowest   *)
(* terms with d > 0; the values a division by zero produces are 1/0        *)
(* (Infinity), -1/0 (-Infinity) and 0/0 (NaN), with the arithmetic of      *)
(* IEEE 754 on them.  Rounding is not modelled.                            *)
(***************************************************************************)
RECURSIVE GCD(_, _)
GCD(a, b) == IF b = 0 THEN a ELSE GCD(b, a % b)

Sign(n) == IF n > 0 THEN 1 ELSE IF n < 0 THEN -1 ELSE 0

Q(n, d) ==
    IF d = 0 THEN [n |-> Sign(n), d |-> 0]
    ELSE LET k == GCD(Abs(n), Abs(d))
         IN  [n |-> (Sign(d) * n) \div k, d |-> Abs(d) \div k]

QInt(k) == [n |-> k, d |-> 1]
NaN == [n |-> 0, d |-> 0]
IsNaN(a) == a = NaN
IsFinite(a) == a.d # 0

QNeg(a) == [n |-> -a.n, d |-> a.d]

QAdd(a, b) ==
    IF IsNaN(a) \/ IsNaN(b) THEN NaN
    ELSE IF a.d = 0 /\ b.d = 0 THEN IF a = b THEN a ELSE NaN
    ELSE IF a.d = 0 THEN a
    ELSE IF b.d = 0 THEN b
    ELSE Q(a.n * b.d + b.n * a.d, a.d * b.d)

QSub(a, b) == QAdd(a, QNeg(b))

QMul(a, b) == Q(a.n * b.n, a.d * b.d)

\* 1 / b; a zero is +0
QRecip(b) == IF IsNaN(b) THEN NaN ELSE IF b.d = 0 THEN QInt(0) ELSE Q(b.d, b.n)

QDiv(a, b) == QMul(a, QRecip(b))

\* a < b; false when either is NaN
QLt(a, b) ==
    /\ ~IsNaN(a)
    /\ ~IsNaN(b)
    /\ a # b
    /\ IF a.d = 0 THEN a.n < 0
       ELSE IF b.d = 0 THEN b.n > 0
       ELSE a.n * b.d < b.n * a.d

QLe(a, b) == ~IsNaN(a) /\ ~IsNaN(b) /\ ~QLt(b, a)

\* Math.max, Math.min: NaN when either argument is NaN
QMax(a, b) == IF IsNaN(a) \/ IsNaN(b) THEN NaN ELSE IF QLt(a, b) THEN b ELSE a
QMin(a, b) == IF IsNaN(a) \/ IsNaN(b) THEN NaN ELSE IF QLt(b, a) THEN b ELSE a

\* a point and a view of whole numbers, as fractions
QPt(p) == [x |-> QInt(p.x), y |-> QInt(p.y)]
QView(px, py, s) == [x |-> px, y |-> py, scale |-> s]

ZOOM_MIN == Q(1, 10)
QZOOM_MAX == QInt(ZOOM_MAX)
ZOOM_BUTTON_STEP == Q(1, 5)

\* screenToWorld multiplying by the scale
Q_screenToWorld_Mul(point, v) ==
    [x |-> QMul(QSub(point.x, v.x), v.scale), y |-> QMul(QSub(point.y, v.y), v.scale)]

\* screenToWorld(point, view)
Q_screenToWorld(point, v) ==
    [x |-> QDiv(QSub(point.x, v.x), v.scale), y |-> QDiv(QSub(point.y, v.y), v.scale)]

\* worldToScreen(point, view)
Q_worldToScreen(point, v) ==
    [x |-> QAdd(QMul(point.x, v.scale), v.x), y |-> QAdd(QMul(point.y, v.scale), v.y)]

\* Math.min(Math.max(s, ZOOM_MIN), ZOOM_MAX)
Clamp(s) == QMin(QMax(s, ZOOM_MIN), QZOOM_MAX)

\* handleWheel(e): scaleChange is Math.exp(-e.deltaY * SCROLL_SENSITIVITY)
handleWheel(v, client, scaleChange) ==
    LET newScale == Clamp(QMul(v.scale, scaleChange))
        worldPoint == Q_screenToWorld(QPt(client), v)
    IN  QView(QSub(QInt(client.x), QMul(worldPoint.x, newScale)),
              QSub(QInt(client.y), QMul(worldPoint.y, newScale)),
              newScale)

\* the variant's updateZoom(newScale, centerX, centerY)
updateZoom(v, newScale, center) ==
    LET scale == Clamp(newScale)
        worldPoint == Q_screenToWorld(center, v)
    IN  QView(QSub(center.x, QMul(worldPoint.x, scale)),
              QSub(center.y, QMul(worldPoint.y, scale)),
              scale)

\* the variant's handleWheel(e)
Variant_handleWheel(v, client, scaleChange) == updateZoom(v, QMul(v.scale, scaleChange), QPt(client))

\* the "-" and "+" buttons
zoomOut(v) == [v EXCEPT !.scale = QMax(QSub(@, ZOOM_BUTTON_STEP), ZOOM_MIN)]
zoomIn(v) == [v EXCEPT !.scale = QMin(QAdd(@, ZOOM_BUTTON_STEP), QZOOM_MAX)]

\* the pinch state a second pointer-down captures
Q_PinchStart(ap, v) ==
    LET pointers == PinchPoints(ap)
        midPoint == [x |-> Q(pointers[1].x + pointers[2].x, 2), y |-> Q(pointers[1].y + pointers[2].y, 2)]
    IN  [initialDist |-> QInt(distance(pointers[1], pointers[2])),
         initialScale |-> v.scale,
         worldMid |-> Q_screenToWorld(midPoint, v)]

\* a pinch move that scales the current view instead of the initial one
Q_PinchView_Incremental(ap, pinch) ==
    LET pointers == PinchPoints(ap)
        newDist == QInt(distance(pointers[1], pointers[2]))
        midPoint == [x |-> Q(pointers[1].x + pointers[2].x, 2), y |-> Q(pointers[1].y + pointers[2].y, 2)]
        newScale == Clamp(QMul(view.scale, QDiv(newDist, pinch.initialDist)))
    IN  QView(QSub(midPoint.x, QMul(pinch.worldMid.x, newScale)),
              QSub(midPoint.y, QMul(pinch.worldMid.y, newScale)),
              newScale)

\* the view a pinch move sets
Q_PinchView(ap, pinch) ==
    LET pointers == PinchPoints(ap)
        newDist == QInt(distance(pointers[1], pointers[2]))
        midPoint == [x |-> Q(pointers[1].x + pointers[2].x, 2), y |-> Q(pointers[1].y + pointers[2].y, 2)]
        scaleChange == QDiv(newDist, pinch.initialDist)
        newScale == Clamp(QMul(pinch.initialScale, scaleChange))
    IN  QView(QSub(midPoint.x, QMul(pinch.worldMid.x, newScale)),
              QSub(midPoint.y, QMul(pinch.worldMid.y, newScale)),
              newScale)

\* the view a pan move sets
Q_Pan(v, client, start) ==
    [v EXCEPT !.x = QSub(QAdd(@, QInt(client.x)), QInt(start.x)),
              !.y = QSub(QAdd(@, QInt(client.y)), QInt(start.y))]

(***************************************************************************)
(* SpecView: the events that change the view, with the HAND tool active.   *)
(***************************************************************************)
ViewStep == 20          \* unit of the screen positions of SpecView
ViewportW == 120        \* window.innerWidth
ViewportH == 80         \* window.innerHeight
MaxViewOps == 4         \* events of a behaviour of SpecView

\* screen positions whose distances are whole numbers
ViewPts == {Pt(0, 0), Pt(3 * ViewStep, 0), Pt(0, 4 * ViewStep)}

\* values of Math.exp(-e.deltaY * SCROLL_SENSITIVITY)
WheelFactors == {Q(1, 2), QInt(2)}

\* the centre of the viewport
Center == [x |-> Q(ViewportW, 2), y |-> Q(ViewportH, 2)]

InitView ==
    /\ history = << <<>> >>
    /\ currentIndex = 0
    /\ view = QView(QInt(0), QInt(0), QInt(1))
    /\ activeTool = "HAND"
    /\ isDragging = FALSE
    /\ isResizing = Null
    /\ isPanning = FALSE
    /\ dragStart = Pt(0, 0)
    /\ selectedIds = <<>>
    /\ selectionBox = None
    /\ currentLaserId = Null
    /\ triangleStep = 0
    /\ currentElement = None
    /\ tempElements = None
    /\ dragOrigin = None
    /\ dragOffset = Pt(0, 0)
    /\ activePointers = <<>>
    /\ pinchState = None
    /\ pressed = {}
    /\ g = [nCommits |-> 0, gest |-> NoGesture]
    /\ hop = NoHop
    /\ scn = [step |-> 0, base |-> <<>>]
    /\ vop = NoVop
    /\ imports = <<>>
    /\ fcall = NoCall

\* what no event of SpecView changes
ViewFrame ==
    UNCHANGED <<history, currentIndex, activeTool, isDragging, isResizing, selectedIds,
                selectionBox, currentLaserId, triangleStep, currentElement, tempElements,
                dragOrigin, dragOffset, g, hop, scn, fcall, imports>>

\* the record of the operation op, called with the screen point at
VopNext(op, at) == [op |-> op, n |-> vop.n + 1, at |-> at, before |-> view]

\* onWheel={handleWheel}
Wheel(client, scaleChange) ==
    /\ vop.n < MaxViewOps
    /\ view' = handleWheel(view, client, scaleChange)
    /\ vop' = VopNext("wheel", client)
    /\ UNCHANGED <<isPanning, dragStart, activePointers, pinchState, pressed>>
    /\ ViewFrame

\* the variant's onWheel={handleWheel}
Variant_Wheel(client, scaleChange) ==
    /\ vop.n < MaxViewOps
    /\ view' = Variant_handleWheel(view, client, scaleChange)
    /\ vop' = VopNext("variantWheel", client)
    /\ UNCHANGED <<isPanning, dragStart, activePointers, pinchState, pressed>>
    /\ ViewFrame

ZoomOutClick ==
    /\ vop.n < MaxViewOps
    /\ view' = zoomOut(view)
    /\ vop' = VopNext("zoomOut", Pt(0, 0))
    /\ UNCHANGED <<isPanning, dragStart, activePointers, pinchState, pressed>>
    /\ ViewFrame

ZoomInClick ==
    /\ vop.n < MaxViewOps
    /\ view' = zoomIn(view)
    /\ vop' = VopNext("zoomIn", Pt(0, 0))
    /\ UNCHANGED <<isPanning, dragStart, activePointers, pinchState, pressed>>
    /\ ViewFrame

\* handlePointerDownV2(e) with the HAND tool: pinch setup or start of a pan
Q_PointerDown(e) ==
    /\ vop.n < MaxViewOps
    /\ e.pointerId \notin pressed
    /\ LET ap == (e.pointerId :> e.client) @@ activePointers
       IN  /\ activePointers' = ap
           /\ IF Cardinality(DOMAIN ap) = 2
                 THEN /\ pinchState' = Some(Q_PinchStart(ap, view))
                      /\ isPanning' = FALSE
                      /\ UNCHANGED dragStart
                 ELSE /\ isPanning' = TRUE
                      /\ dragStart' = e.client
                      /\ UNCHANGED pinchState
    /\ pressed' = pressed \cup {e.pointerId}
    /\ vop' = VopNext("down", e.client)
    /\ UNCHANGED view
    /\ ViewFrame

\* handlePointerMoveV2(e) with the HAND tool: pinch or pan
Q_PointerMove(e) ==
    /\ vop.n < MaxViewOps
    /\ e.pointerId \in pressed
    /\ LET ap == (e.pointerId :> e.client) @@ activePointers
       IN  /\ activePointers' = ap
           /\ IF Cardinality(DOMAIN ap) = 2 /\ pinchState # None
                 THEN /\ view' = Q_PinchView(ap, Val(pinchState))
                      /\ vop' = VopNext("pinch", e.client)
                      /\ UNCHANGED dragStart
                 ELSE IF isPanning
                 THEN /\ view' = Q_Pan(view, e.client, dragStart)
                      /\ dragStart' = e.client
                      /\ vop' = VopNext("pan", e.client)
                 ELSE /\ vop' = VopNext("move", e.client)
                      /\ UNCHANGED <<view, dragStart>>
    /\ UNCHANGED <<isPanning, pinchState, pressed>>
    /\ ViewFrame

\* handlePointerUp(e) with the HAND tool
Q_PointerUp(e) ==
    /\ vop.n < MaxViewOps
    /\ e.pointerId \in pressed
    /\ LET ap == Without(activePointers, e.pointerId)
       IN  /\ activePointers' = ap
           /\ pinchState' = IF Cardinality(DOMAIN ap) < 2 THEN None ELSE pinchState
    /\ isPanning' = FALSE
    /\ pressed' = pressed \ {e.pointerId}
    /\ vop' = VopNext("up", e.client)
    /\ UNCHANGED <<view, dragStart>>
    /\ ViewFrame

ViewEvents == [pointerId : PointerIds, client : ViewPts]

NextView ==
    \/ \E client \in ViewPts : \E scaleChange \in WheelFactors : Wheel(client, scaleChange)
    \/ \E client \in ViewPts : \E scaleChange \in WheelFactors : Variant_Wheel(client, scaleChange)
    \/ ZoomOutClick
    \/ ZoomInClick
    \/ \E e \in ViewEvents : Q_PointerDown(e)
    \/ \E e \in ViewEvents : Q_PointerMove(e)
    \/ \E e \in ViewEvents : Q_PointerUp(e)

SpecView == InitView /\ [][NextView]_vars

(***************************************************************************)
(* SpecRoundTrip: screenToWorld and worldToScreen applied one after the    *)
(* other to a point p under a view v, both drawn from fractions of         *)
(* numerator and denominator up to MaxRt.                                  *)
(***************************************************************************)
MaxRt == 2

RtNums == {Q(k, m) : k \in (-MaxRt)..MaxRt, m \in 1..MaxRt}
RtPoints == [x : RtNums, y : {QInt(-MaxRt), Q(1, MaxRt)}]
RtViews == [x : {QInt(MaxRt), Q(-1, MaxRt)}, y : {QInt(0), QInt(-MaxRt)}, scale : RtNums \ {QInt(0)}]

InitRoundTrip ==
    /\ history = << <<>> >>
    /\ currentIndex = 0
    /\ InitUi
    /\ hop = NoHop
    /\ scn = [step |-> 0, base |-> <<>>]
    /\ vop = NoVop
    /\ imports = <<>>
    /\ \E p \in RtPoints : \E v \in RtViews : fcall = [fn |-> "none", p |-> p, v |-> v]

\* screenToWorld(worldToScreen(p, v), v)
WorldRoundTrip ==
    /\ fcall.fn = "none"
    /\ fcall' = [fcall EXCEPT !.fn = "world"] @@
                    [ret |-> Q_screenToWorld(Q_worldToScreen(fcall.p, fcall.v), fcall.v)]
    /\ UNCHANGED <<history, currentIndex, uiVars, pressed, g, hop, scn, vop, imports>>

\* worldToScreen(screenToWorld(p, v), v)
ScreenRoundTrip ==
    /\ fcall.fn = "none"
    /\ fcall' = [fcall EXCEPT !.fn = "screen"] @@
                    [ret |-> Q_worldToScreen(Q_screenToWorld(fcall.p, fcall.v), fcall.v)]
    /\ UNCHANGED <<history, currentIndex, uiVars, pressed, g, hop, scn, vop, imports>>

NextRoundTrip == WorldRoundTrip \/ ScreenRoundTrip

SpecRoundTrip == InitRoundTrip /\ [][NextRoundTrip]_vars

(***************************************************************************)
(* The eraser as a pure function: performErase(worldPos, currentList) at   *)
(* view.scale = 1 over bounded lists of shapes.  Every segment of every    *)
(* shape is axis-parallel with a length that is a multiple of the spacing, *)
(* or spans a multiple of the 3-4-5 triangle whose hypotenuse is one, so   *)
(* the quotients interpolatePoints takes are exact.                         *)
(***************************************************************************)
MaxEraseList == 2

\* the shapes a list is drawn from; an image carries no strokeWidth, which
\* is held as 0 (el.strokeWidth || 2 reads both as missing)
EraseShapes(id) ==
    { [id |-> id, type |-> "pencil", x |-> 0, y |-> 0,
       points |-> << Pt(0, 0), Pt(60, 0) >>,
       strokeColor |-> "#ff0000", strokeWidth |-> 4],
      [id |-> id, type |-> "pencil", x |-> 0, y |-> 40,
       points |-> << Pt(0, 40), Pt(5, 40), Pt(10, 40), Pt(15, 40) >>,
       strokeColor |-> activeColor, strokeWidth |-> activeStrokeWidth],
      [id |-> id, type |-> "image", x |-> 0, y |-> 0, width |-> 40, height |-> 30,
       strokeColor |-> Null, strokeWidth |-> 0],
      [id |-> id, type |-> "triangle", x |-> 0, y |-> 0,
       p1 |-> Pt(0, 0), p2 |-> Pt(40, 0), p3 |-> Pt(40, 30),
       strokeColor |-> activeColor, fillColor |-> "transparent", strokeWidth |-> activeStrokeWidth],
      [id |-> id, type |-> "arrow", x |-> 0, y |-> 0, endX |-> 30, endY |-> 40,
       strokeColor |-> "#ff0000", strokeWidth |-> 4] }

\* the k-th shape of a list was given the id ListIds[k] when it was drawn
ListIds == << "a", "b", "c" >>

\* the values generateId() may return: one already in the list, one not
EraseIds == {"a", "n"}

\* the world positions of the eraser
ErasePts ==
    { Pt(0, 0), Pt(30, 0), Pt(25, 0), Pt(20, 15), Pt(-22, 0), Pt(60, 40), Pt(100, 100) }

EraseLists ==
    UNION { { l \in [1..n -> UNION { EraseShapes(ListIds[k]) : k \in 1..n }] :
                \A k \in 1..n : l[k].id = ListIds[k] } : n \in 1..MaxEraseList }

\* lines 129-138 for one shape that passed the prefilter: the outline and
\* the runs of the walk, before the test that keeps the shape
EraseTrace(el, worldPos, scale) ==
    LET radius == ERASER_RADIUS \div scale
    IN  IF ~isElementRoughlyIntersecting(el, worldPos, radius)
            THEN [walked |-> FALSE, points |-> <<>>, newSegments |-> <<>>]
        ELSE LET points == convertShapeToPoints(el, ERASE_SPACING \div scale)
             IN  [walked |-> TRUE, points |-> points,
                  newSegments |-> WalkPoints(points, 1, worldPos, radius, <<>>, <<>>)]

InitErase ==
    /\ history = << <<>> >>
    /\ currentIndex = 0
    /\ InitUi
    /\ hop = NoHop
    /\ scn = [step |-> 0, base |-> <<>>]
    /\ vop = NoVop
    /\ imports = <<>>
    /\ \E list \in EraseLists : \E worldPos \in ErasePts :
       \E ids \in IdSeqsOf(EraseIds, EraseIdCount(worldPos, list, 1)) :
           fcall = [fn |-> "none", worldPos |-> worldPos, list |-> list, ids |-> ids]

\* one call of performErase; "trace" keeps, per shape of the list, what the
\* loop body computed for it
Erase ==
    /\ fcall.fn = "none"
    /\ fcall' = [fcall EXCEPT !.fn = "performErase"] @@
                    [ret   |-> performErase(fcall.worldPos, fcall.list, 1, fcall.ids),
                     trace |-> [k \in 1..Len(fcall.list) |->
                                    EraseTrace(fcall.list[k], fcall.worldPos, 1)]]
    /\ UNCHANGED <<history, currentIndex, uiVars, pressed, g, hop, scn, vop, imports>>

NextErase == Erase

SpecErase == InitErase /\ [][NextErase]_vars

(***************************************************************************)
(* The eraser applied to its own result: performErase(worldPos, list) and  *)
(* then performErase(worldPos, ret) at the same view.scale = 1.  The lists *)
(* also hold a pencil whose recorded points lie 12 apart, which the        *)
(* outline cuts into steps of 4, shorter than the spacing.                 *)
(***************************************************************************)
TwiceShapes(id) ==
    EraseShapes(id) \cup
    { [id |-> id, type |-> "pencil", x |-> 0, y |-> 0,
       points |-> << Pt(0, 0), Pt(12, 0), Pt(24, 0), Pt(36, 0) >>,
       strokeColor |-> "#ff0000", strokeWidth |-> 4] }

TwiceLists ==
    UNION { { l \in [1..n -> UNION { TwiceShapes(ListIds[k]) : k \in 1..n }] :
                \A k \in 1..n : l[k].id = ListIds[k] } : n \in 1..MaxEraseList }

InitTwice ==
    /\ history = << <<>> >>
    /\ currentIndex = 0
    /\ InitUi
    /\ hop = NoHop
    /\ scn = [step |-> 0, base |-> <<>>]
    /\ vop = NoVop
    /\ imports = <<>>
    /\ \E list \in TwiceLists : \E worldPos \in ErasePts :
       \E ids \in IdSeqsOf(EraseIds, EraseIdCount(worldPos, list, 1)) :
           fcall = [fn |-> "none", worldPos |-> worldPos, list |-> list, ids |-> ids]

\* performErase called with the list it returned, at the same position;
\* ids2 are the values generateId() returns during this call
EraseAgain ==
    /\ fcall.fn = "performErase"
    /\ \E ids2 \in IdSeqsOf(EraseIds, EraseIdCount(fcall.worldPos, fcall.ret, 1)) :
           fcall' = [fcall EXCEPT !.fn = "performErase again"] @@
                        [ids2 |-> ids2,
                         ret2 |-> performErase(fcall.worldPos, fcall.ret, 1, ids2)]
    /\ UNCHANGED <<history, currentIndex, uiVars, pressed, g, hop, scn, vop, imports>>

NextTwice == Erase \/ EraseAgain

SpecTwice == InitTwice /\ [][NextTwice]_vars

(***************************************************************************)
(* Bounds and hit-testing as pure functions: getElementBounds,             *)
(* getCommonBounds, hitTestElement and getElementAtPosition over bounded   *)
(* lists of shapes, world positions and zoom factors that divide 10.       *)
(***************************************************************************)
MaxGeomList == 2

\* the shapes a list is drawn from: a rectangle and its mirror image of
\* negative width, an image of negative width and height, circles of radius
\* 0 and 25, a triangle, a horizontal and a vertical arrow, and pencils of
\* no, one and two points
GeomShapes(id) ==
    { [id |-> id, type |-> "rectangle", x |-> 0, y |-> 0, width |-> 100, height |-> 50,
       strokeColor |-> activeColor, strokeWidth |-> activeStrokeWidth],
      [id |-> id, type |-> "rectangle", x |-> 0, y |-> 0, width |-> -100, height |-> 50,
       strokeColor |-> activeColor, strokeWidth |-> activeStrokeWidth],
      [id |-> id, type |-> "image", x |-> 10, y |-> 10, width |-> -20, height |-> -30,
       strokeColor |-> Null, strokeWidth |-> 0],
      [id |-> id, type |-> "circle", x |-> 50, y |-> 50, radius |-> 0,
       strokeColor |-> activeColor, strokeWidth |-> activeStrokeWidth],
      [id |-> id, type |-> "circle", x |-> 20, y |-> 0, radius |-> 25,
       strokeColor |-> activeColor, strokeWidth |-> activeStrokeWidth],
      [id |-> id, type |-> "triangle", x |-> 0, y |-> 0,
       p1 |-> Pt(0, 0), p2 |-> Pt(40, 0), p3 |-> Pt(40, 30),
       strokeColor |-> activeColor, strokeWidth |-> activeStrokeWidth],
      [id |-> id, type |-> "arrow", x |-> 0, y |-> 0, endX |-> 40, endY |-> 0,
       strokeColor |-> activeColor, strokeWidth |-> activeStrokeWidth],
      [id |-> id, type |-> "arrow", x |-> 50, y |-> 20, endX |-> 50, endY |-> -20,
       strokeColor |-> activeColor, strokeWidth |-> activeStrokeWidth],
      [id |-> id, type |-> "pencil", x |-> 0, y |-> 0, points |-> <<>>,
       strokeColor |-> activeColor, strokeWidth |-> activeStrokeWidth],
      [id |-> id, type |-> "pencil", x |-> 5, y |-> 5, points |-> << Pt(5, 5) >>,
       strokeColor |-> activeColor, strokeWidth |-> activeStrokeWidth],
      [id |-> id, type |-> "pencil", x |-> 0, y |-> 40, points |-> << Pt(0, 40), Pt(60, 40) >>,
       strokeColor |-> activeColor, strokeWidth |-> activeStrokeWidth] }

\* the lists of at most MaxGeomList shapes, the empty list included; the
\* k-th shape carries the id ListIds[k]
GeomLists ==
    UNION { { l \in [1..n -> UNION { GeomShapes(ListIds[k]) : k \in 1..n }] :
                \A k \in 1..n : l[k].id = ListIds[k] } : n \in 0..MaxGeomList }

\* world positions: beside the middle of the horizontal arrow at offsets 0,
\* 4, 5, 9, 10 and 11, beside the vertical arrow at offsets 9 and 5, inside
\* the mirrored rectangle and away from every shape
GeomPts ==
    { Pt(20, 0), Pt(20, 4), Pt(20, -5), Pt(20, 9), Pt(20, -9), Pt(20, 10), Pt(20, 11),
      Pt(41, 0), Pt(55, 0), Pt(-50, 25), Pt(200, 200) }

\* zoom factors
GeomZooms == {1, 2}

InitGeom ==
    /\ history = << <<>> >>
    /\ currentIndex = 0
    /\ InitUi
    /\ hop = NoHop
    /\ scn = [step |-> 0, base |-> <<>>]
    /\ vop = NoVop
    /\ imports = <<>>
    /\ \E list \in GeomLists : \E pos \in GeomPts : \E zoom \in GeomZooms :
           fcall = [fn |-> "none", list |-> list, pos |-> pos, zoom |-> zoom]

\* getElementAtPosition(pos) with the list as the tentative list, or as the
\* current snapshot with no tentative list
AtPosition ==
    /\ fcall.fn = "none"
    /\ \E temp \in BOOLEAN :
        LET S == [St EXCEPT !.history = << IF temp THEN <<>> ELSE fcall.list >>,
                            !.currentIndex = 0,
                            !.tempElements = IF temp THEN Some(fcall.list) ELSE None,
                            !.view = [x |-> 0, y |-> 0, scale |-> fcall.zoom]]
        IN  fcall' = [fcall EXCEPT !.fn = "getElementAtPosition"] @@
                        [temp |-> temp, ret |-> getElementAtPosition(S, fcall.pos)]
    /\ UNCHANGED <<history, currentIndex, uiVars, pressed, g, hop, scn, vop, imports>>

\* hitTestElement(el, pos, zoom) for every shape el of the list
HitTest ==
    /\ fcall.fn = "none"
    /\ fcall' = [fcall EXCEPT !.fn = "hitTestElement"] @@
                    [ret |-> [k \in 1..Len(fcall.list) |->
                                 hitTestElement(fcall.list[k], fcall.pos, fcall.zoom)]]
    /\ UNCHANGED <<history, currentIndex, uiVars, pressed, g, hop, scn, vop, imports>>

\* getElementBounds(el) for every shape el of the list
ElementBounds ==
    /\ fcall.fn = "none"
    /\ fcall' = [fcall EXCEPT !.fn = "getElementBounds"] @@
                    [ret |-> [k \in 1..Len(fcall.list) |-> getElementBounds(fcall.list[k])]]
    /\ UNCHANGED <<history, currentIndex, uiVars, pressed, g, hop, scn, vop, imports>>

\* getCommonBounds of the list and of one of its sublists
CommonBounds ==
    /\ fcall.fn = "none"
    /\ \E keep \in SUBSET (1..Len(fcall.list)) :
        LET sub == SelectSeq(fcall.list, LAMBDA el : \E k \in keep : fcall.list[k] = el)
        IN  fcall' = [fcall EXCEPT !.fn = "getCommonBounds"] @@
                        [sub |-> sub, ret |-> getCommonBounds(fcall.list),
                         retSub |-> getCommonBounds(sub)]
    /\ UNCHANGED <<history, currentIndex, uiVars, pressed, g, hop, scn, vop, imports>>

NextGeom == AtPosition \/ HitTest \/ ElementBounds \/ CommonBounds

SpecGeom == InitGeom /\ [][NextGeom]_vars

(***************************************************************************)
(* interpolatePoints as the loop it is written as: one step per test of    *)
(* i < steps, so that a call that never leaves the loop is a behaviour.    *)
(* Math.ceil(dist / spacing) is kept as a number, Infinity or NaN.         *)
(***************************************************************************)
MaxInterpSteps == 15

\* const steps = Math.ceil(dist / spacing): an integer, Infinity or NaN
StepsOf(p1, p2, spacing) ==
    LET q == Q(distance(p1, p2), spacing)
    IN  IF ~IsFinite(q) THEN q
        ELSE IF q.n >= 0 THEN QInt(CeilDiv(q.n, q.d))
        ELSE QInt(-((-q.n) \div q.d))

\* i < steps
LoopTest(i, steps) ==
    IF IsNaN(steps) THEN FALSE
    ELSE IF ~IsFinite(steps) THEN steps.n > 0
    ELSE i < steps.n

\* the point pushed in round i: t = i / steps, which is 0 for steps Infinity
LoopPoint(p1, p2, i, steps) ==
    IF IsFinite(steps)
        THEN Pt(p1.x + ((p2.x - p1.x) * i) \div steps.n,
                p1.y + ((p2.y - p1.y) * i) \div steps.n)
    ELSE p1

InterpPts == { Pt(0, 0), Pt(5, 0), Pt(60, 0), Pt(0, -20), Pt(30, 40), Pt(3, 0) }

InterpSpacings == { -5, 0, 5, 10 }

\* the distance is an integer and every quotient of LoopPoint is exact
ExactInput(p1, p2, spacing) ==
    /\ distance(p1, p2) * distance(p1, p2) = Dist2(p1, p2)
    /\ LET steps == StepsOf(p1, p2, spacing)
       IN  IsFinite(steps) /\ steps.n > 0 =>
               /\ (p2.x - p1.x) % steps.n = 0
               /\ (p2.y - p1.y) % steps.n = 0

InitInterp ==
    /\ history = << <<>> >>
    /\ currentIndex = 0
    /\ InitUi
    /\ hop = NoHop
    /\ scn = [step |-> 0, base |-> <<>>]
    /\ vop = NoVop
    /\ imports = <<>>
    /\ \E p1 \in InterpPts : \E p2 \in InterpPts : \E spacing \in InterpSpacings :
        /\ ExactInput(p1, p2, spacing)
        /\ fcall = [fn |-> "none", p1 |-> p1, p2 |-> p2, spacing |-> spacing]

\* lines 126-128: the call up to the loop
InterpEnter ==
    /\ fcall.fn = "none"
    /\ fcall' = [fcall EXCEPT !.fn = "loop"] @@
                    [steps |-> StepsOf(fcall.p1, fcall.p2, fcall.spacing),
                     i |-> 0, points |-> <<>>]
    /\ UNCHANGED <<history, currentIndex, uiVars, pressed, g, hop, scn, vop, imports>>

\* lines 129-135: one round of the loop.  The model keeps the first
\* MaxInterpSteps points and counts the rounds up to MaxInterpSteps; in a
\* loop that runs on, the counter then alternates between its last two
\* values
InterpRound ==
    /\ fcall.fn = "loop"
    /\ LoopTest(fcall.i, fcall.steps)
    /\ fcall' = [fcall EXCEPT
                    !.points = IF Len(@) < MaxInterpSteps
                                   THEN Append(@, LoopPoint(fcall.p1, fcall.p2, fcall.i, fcall.steps))
                                   ELSE @,
                    !.i = IF @ < MaxInterpSteps THEN @ + 1 ELSE MaxInterpSteps - 1]
    /\ UNCHANGED <<history, currentIndex, uiVars, pressed, g, hop, scn, vop, imports>>

\* line 136: return points, once the test fails
InterpReturn ==
    /\ fcall.fn = "loop"
    /\ ~LoopTest(fcall.i, fcall.steps)
    /\ fcall' = [fcall EXCEPT !.fn = "interpolatePoints"] @@ [ret |-> fcall.points]
    /\ UNCHANGED <<history, currentIndex, uiVars, pressed, g, hop, scn, vop, imports>>

NextInterp == InterpEnter \/ InterpRound \/ InterpReturn

\* a call that was made keeps running
SpecInterp == InitInterp /\ [][NextInterp]_vars /\ WF_vars(NextInterp)

(***************************************************************************)
(* convertShapeToPoints as a pure function over bounded shapes.  Every     *)
(* segment is axis-parallel with a length that is a multiple of 10, or     *)
(* spans a multiple of the 3-4-5 triangle, so that the quotients           *)
(* interpolatePoints takes are exact at both spacings.                      *)
(***************************************************************************)
RasterSpacings == { 5, 10 }

RasterLines ==
    { << Pt(0, 0), Pt(0, 0) >>, << Pt(0, 0), Pt(30, 40) >>, << Pt(50, 20), Pt(50, -20) >>,
      << Pt(60, 0), Pt(0, 0) >> }

RasterTriangles ==
    { << Pt(0, 0), Pt(40, 0), Pt(40, 30) >>, << Pt(40, 30), Pt(40, 0), Pt(0, 0) >>,
      << Pt(10, 10), Pt(10, 10), Pt(10, 10) >>, << Pt(0, 0), Pt(20, 0), Pt(0, 0) >> }

RasterPencils ==
    { << Pt(7, 7) >>, << Pt(0, 0), Pt(20, 0) >>, << Pt(0, 0), Pt(20, 0), Pt(0, 0) >>,
      << Pt(0, 0), Pt(0, 0), Pt(30, 40) >>, << Pt(0, 0), Pt(30, 40), Pt(30, 0), Pt(0, 0) >> }

RasterShapes ==
    { [id |-> "a", type |-> type, x |-> x, y |-> 0, width |-> width, height |-> height,
       strokeColor |-> activeColor, fillColor |-> "transparent",
       strokeWidth |-> activeStrokeWidth] :
          type \in {"rectangle", "image"}, x \in {0, 10}, width \in {-20, 0, 20, 40},
          height \in {-10, 0, 30} }
    \cup { [id |-> "a", type |-> "triangle", x |-> t[1].x, y |-> t[1].y,
            p1 |-> t[1], p2 |-> t[2], p3 |-> t[3],
            strokeColor |-> activeColor, fillColor |-> "transparent",
            strokeWidth |-> activeStrokeWidth] : t \in RasterTriangles }
    \cup { [id |-> "a", type |-> "arrow", x |-> l[1].x, y |-> l[1].y,
            endX |-> l[2].x, endY |-> l[2].y,
            strokeColor |-> activeColor, strokeWidth |-> activeStrokeWidth] : l \in RasterLines }
    \cup { [id |-> "a", type |-> "pencil", x |-> p[1].x, y |-> p[1].y, points |-> p,
            strokeColor |-> activeColor, strokeWidth |-> activeStrokeWidth] : p \in RasterPencils }

InitRaster ==
    /\ history = << <<>> >>
    /\ currentIndex = 0
    /\ InitUi
    /\ hop = NoHop
    /\ scn = [step |-> 0, base |-> <<>>]
    /\ vop = NoVop
    /\ imports = <<>>
    /\ \E el \in RasterShapes : \E spacing \in RasterSpacings :
           fcall = [fn |-> "none", el |-> el, spacing |-> spacing]

\* one call of convertShapeToPoints(el, spacing)
Raster ==
    /\ fcall.fn = "none"
    /\ fcall' = [fcall EXCEPT !.fn = "convertShapeToPoints"] @@
                    [ret |-> convertShapeToPoints(fcall.el, fcall.spacing)]
    /\ UNCHANGED <<history, currentIndex, uiVars, pressed, g, hop, scn, vop, imports>>

NextRaster == Raster

SpecRaster == InitRaster /\ [][NextRaster]_vars

(***************************************************************************)
(* SpecOutside: a mouse that draws, selects, pans and points the laser,    *)
(* and the events that change the view only: the wheel and the zoom        *)
(* buttons.  The view of the component is kept in whole numbers: the       *)
(* handlers of the view are computed in exact fractions and the event is   *)
(* taken where the view they return is whole.                              *)
(***************************************************************************)
MaxOutsideCommits == 2
MaxOutsideScale == 2
MaxOutsideViewOps == 2

QOfView(v) == QView(QInt(v.x), QInt(v.y), QInt(v.scale))

WholeView(qv) == qv.x.d = 1 /\ qv.y.d = 1 /\ qv.scale.d = 1

ViewOfQ(qv) == [x |-> qv.x.n, y |-> qv.y.n, scale |-> qv.scale.n]

\* the render after setView(qv)
SetViewStep(qv) ==
    /\ vop.n < MaxOutsideViewOps
    /\ WholeView(qv)
    /\ qv.scale.n <= MaxOutsideScale
    /\ LET R == [St EXCEPT !.view = ViewOfQ(qv)]
       IN  /\ Apply(R)
           /\ Track(R, NoGesture)
    /\ vop' = [op |-> "setView", n |-> vop.n + 1]
    /\ UNCHANGED <<pressed, hop, scn, fcall, imports>>

\* onWheel={handleWheel}
WheelEvent(client, scaleChange) ==
    SetViewStep(handleWheel(QOfView(view), client, scaleChange))

\* the "+" button, clicked until the scale is a whole number again
RECURSIVE ZoomInToWhole(_)
ZoomInToWhole(qv) ==
    LET next == zoomIn(qv)
    IN  IF next.scale.d = 1 THEN next ELSE ZoomInToWhole(next)

\* the "-" button, clicked until the scale is a whole number again; this
\* takes a scale above 1
RECURSIVE ZoomOutToWhole(_)
ZoomOutToWhole(qv) ==
    LET next == zoomOut(qv)
    IN  IF next.scale.d = 1 THEN next ELSE ZoomOutToWhole(next)

ZoomInClicks == SetViewStep(ZoomInToWhole(QOfView(view)))

ZoomOutClicks ==
    view.scale > 1 /\ SetViewStep(ZoomOutToWhole(QOfView(view)))

OutsideTools == {"SELECT", "RECTANGLE", "HAND", "LASER"}

NextOutside ==
    \/ NextQuiet({1}, {}, {Pt(0, 0)}, OutsideTools, MaxOutsideCommits)
    \/ \E scaleChange \in WheelFactors : WheelEvent(Pt(0, 0), scaleChange)
    \/ ZoomInClicks
    \/ ZoomOutClicks

SpecOutside == Init /\ [][NextOutside]_vars

(***************************************************************************)
(* SpecRuns: the hook driven by push / undo / redo calls, with the record  *)
(* of the current run of undos and redos: the stack and index the run      *)
(* started from, and the undos and redos that took effect since.           *)
(***************************************************************************)
MaxRunPush == 4

NoRun == [fn |-> "none", nPush |-> 0]

InitRuns ==
    /\ history = << Snap(0) >>
    /\ currentIndex = 0
    /\ hop = NoHop
    /\ scn = [step |-> 0, base |-> <<>>]
    /\ InitUi
    /\ vop = NoVop
    /\ imports = <<>>
    /\ fcall = NoRun

Run(h0, i0, undos, redos) ==
    [fn |-> "run", nPush |-> fcall.nPush, h0 |-> h0, i0 |-> i0, undos |-> undos, redos |-> redos]

\* pushToHistory(Snap(n)) for the n-th push
RunPush ==
    /\ fcall.nPush < MaxRunPush
    /\ LET r == pushToHistory(history, currentIndex, Snap(fcall.nPush + 1))
       IN  /\ history' = r.history
           /\ currentIndex' = r.currentIndex
    /\ fcall' = [fn |-> "none", nPush |-> fcall.nPush + 1]
    /\ UNCHANGED <<uiVars, pressed, g, hop, scn, vop, imports>>

\* undo(): it extends the run while no redo has been made in it, and opens
\* a run otherwise; an undo at index 0 ends the run
RunUndo ==
    /\ currentIndex' = undoIndex(history, currentIndex)
    /\ history' = history
    /\ fcall' = IF ~canUndo THEN [fn |-> "none", nPush |-> fcall.nPush]
                ELSE IF fcall.fn = "run" /\ fcall.redos = 0
                    THEN Run(fcall.h0, fcall.i0, fcall.undos + 1, 0)
                ELSE Run(history, currentIndex, 1, 0)
    /\ UNCHANGED <<uiVars, pressed, g, hop, scn, vop, imports>>

\* redo(): it extends the run while undos of the run are left to redo, and
\* ends it otherwise
RunRedo ==
    /\ currentIndex' = redoIndex(history, currentIndex)
    /\ history' = history
    /\ fcall' = IF fcall.fn = "run" /\ fcall.redos < fcall.undos
                    THEN Run(fcall.h0, fcall.i0, fcall.undos, fcall.redos + 1)
                ELSE [fn |-> "none", nPush |-> fcall.nPush]
    /\ UNCHANGED <<uiVars, pressed, g, hop, scn, vop, imports>>

NextRuns == RunPush \/ RunUndo \/ RunRedo

SpecRuns == InitRuns /\ [][NextRuns]_vars

(***************************************************************************)
(* SpecHover: a mouse (pointer 1), which moves and leaves whether it is    *)
(* pressed or not, and a finger (pointer 2).                               *)
(***************************************************************************)
MaxHoverCommits == 1
HoverTools == {"HAND", "RECTANGLE"}
NextHover == NextQuiet(PointerIds, {1}, ClientPts, HoverTools, MaxHoverCommits)
SpecHover == Init /\ [][NextHover]_vars

(***************************************************************************)
(* Claims about the history hook (checked under SpecHistory)               *)
(***************************************************************************)

\* C1: after any sequence of pushToHistory, undo and redo calls from the
\* initial one-snapshot stack, length >= 1 and 0 <= currentIndex < length.
C1_IndexInRange ==
    /\ Len(history) >= 1
    /\ 0 <= currentIndex
    /\ currentIndex < Len(history)

\* a redo that moved the index, after pushes and an undo
C1_Witness ==
    /\ hop.op = "redo"
    /\ hop.nPush > 0
    /\ currentIndex = hop.i + 1

\* the stack a push is claimed to produce from (h, i) and the list L
PushExpected(h, i, L) ==
    LET full == SubSeq(h, 1, i + 1) \o << L >>
    IN  IF Len(full) > 50 THEN SubSeq(full, 2, Len(full)) ELSE full

\* C2: pushToHistory(L) from (stack, i) yields stack[0..i] followed by L,
\* minus the oldest entry if that exceeds 50, with currentIndex at the last
\* position, the current snapshot equal to L and canRedo false; every
\* snapshot that was after index i is gone.
C2_PushResult ==
    hop.op = "push" =>
        /\ history = PushExpected(hop.h, hop.i, hop.arg)
        /\ currentIndex = Len(history) - 1
        /\ elements = hop.arg
        /\ ~canRedo
        /\ \A k \in (hop.i + 2)..Len(hop.h) :
               \A j \in 1..Len(history) : history[j] # hop.h[k]

\* a push made while snapshots existed after currentIndex
C2_Witness ==
    /\ hop.op = "push"
    /\ hop.i < Len(hop.h) - 1

\* C3: the stack never holds more than 50 snapshots; 60 pushes of distinct
\* snapshots onto the initial stack leave exactly the 50 most recent pushes,
\* in push order, with currentIndex 49.
C3_Cap ==
    /\ Len(history) <= 50
    /\ (hop.nPush = 60 /\ hop.nUndoRedo = 0) =>
           /\ Len(history) = 50
           /\ \A k \in 1..50 : history[k] = Snap(k + 10)
           /\ currentIndex = 49

\* sixty pushes and nothing else
C3_Witness ==
    /\ hop.nPush = 60
    /\ hop.nUndoRedo = 0
    /\ hop.op = "push"

\* C4 as stated: from [s0..s4] at index 4, undo(); undo(); push(X) gives
\* exactly [s0, s1, X] with currentIndex 2 and canRedo false.
C4_Original ==
    scn.step = 3 =>
        /\ history = << scn.base[1], scn.base[2], hop.arg >>
        /\ currentIndex = 2
        /\ ~canRedo

\* C4 (amended): from [s0..s4] at index 4, undo(); undo(); push(X) gives
\* exactly the 4 entries [s0, s1, s2, X] with currentIndex 3 and canRedo
\* false: the snapshot s2 that was current when push was called is kept.
C4_BranchDiscard ==
    scn.step = 3 =>
        /\ history = << scn.base[1], scn.base[2], scn.base[3], hop.arg >>
        /\ currentIndex = 3
        /\ ~canRedo

\* the scenario has run to its end
C4_Witness ==
    /\ scn.step = 3
    /\ Len(scn.base) = 5
    /\ hop.op = "push"

\* C5: when currentIndex > 0, undo decrements currentIndex by exactly one
\* and returns the snapshot at the new currentIndex, which is the list the
\* hook then exposes; when currentIndex < length - 1, redo increments by
\* exactly one and returns the snapshot at the new currentIndex.
C5_UndoRedoStep ==
    /\ (hop.op = "undo" /\ hop.i > 0) =>
           /\ currentIndex = hop.i - 1
           /\ hop.ret = At(history, currentIndex)
           /\ hop.ret = elements
    /\ (hop.op = "redo" /\ hop.i < Len(hop.h) - 1) =>
           /\ currentIndex = hop.i + 1
           /\ hop.ret = At(history, currentIndex)
           /\ hop.ret = elements

\* a successful redo (which a successful undo has preceded)
C5_Witness ==
    /\ hop.op = "redo"
    /\ hop.i < Len(hop.h) - 1
    /\ hop.ret # Null

\* C6: undo at index 0 and redo at the tail return null and change neither
\* the stack nor currentIndex; canUndo (canRedo) is true exactly when undo
\* (redo) changes currentIndex.
C6_NoOpAtEnds ==
    /\ (hop.op = "undo" /\ hop.i = 0) =>
           hop.ret = Null /\ history = hop.h /\ currentIndex = hop.i
    /\ (hop.op = "redo" /\ hop.i = Len(hop.h) - 1) =>
           hop.ret = Null /\ history = hop.h /\ currentIndex = hop.i
    /\ hop.op = "undo" => (hop.canUndo <=> currentIndex # hop.i)
    /\ hop.op = "redo" => (hop.canRedo <=> currentIndex # hop.i)

\* an undo called at index 0 with a stack of several snapshots
C6_Witness ==
    /\ hop.op = "undo"
    /\ hop.i = 0
    /\ Len(hop.h) > 1

(***************************************************************************)
(* Claims about gestures                                                    *)
(***************************************************************************)

\* C7: within one gesture (pointer-down, pointer-moves, pointer-up of one
\* pointer) no pointer-move changes history or currentIndex, and the whole
\* gesture adds at most one snapshot to the history.
C7_OneSnapshotPerGesture ==
    [][(g.gest.phase = "open" /\ g'.gest.phase \in {"open", "closed"})
            => /\ g'.gest.phase = "open" => UNCHANGED histVars
               /\ g'.gest.commits <= 1]_vars

\* the step is a pointer-move of the erase drag in progress
EraseMoveStep == g.gest.phase = "open" /\ g.gest.kind = "erase" /\ g'.gest.phase = "open"

\* the step is the release of the erase drag in progress
EraseUpStep == g.gest.phase = "open" /\ g.gest.kind = "erase" /\ g'.gest.phase = "closed"

\* C8: during an erase drag each pointer-move applies performErase to the
\* previous tentative list and leaves the history alone, and the release
\* pushes exactly one snapshot, equal to the final tentative list.
C8_EraseCommitsOnce ==
    [][/\ EraseMoveStep =>
            /\ UNCHANGED histVars
            /\ \E c \in ClientPts :
                \E ids \in IdSeqs(EraseIdCount(screenToWorld(c, view), Val(tempElements), view.scale)) :
                    tempElements' = Some(performErase(screenToWorld(c, view), Val(tempElements),
                                                      view.scale, ids))
       /\ EraseUpStep =>
            /\ history' = pushToHistory(history, currentIndex, Val(tempElements)).history
            /\ currentIndex' = pushToHistory(history, currentIndex, Val(tempElements)).currentIndex
            /\ elements' = Val(tempElements)]_vars

\* the transient state of a gesture
NoTransientState ==
    /\ tempElements = None
    /\ currentElement = None
    /\ ~isPanning
    /\ ~isDragging
    /\ isResizing = Null
    /\ selectionBox = None

\* the step is a pointer-cancel
CancelStep ==
    /\ g'.gest.phase = "cancelled"
    /\ g'.gest.pid \in pressed
    /\ g'.gest.pid \notin pressed'

\* C9: a pointer-cancel discards the tentative list, the shape being
\* drawn, panning, dragging, resizing and the selection box and pushes
\* nothing, and no pointer-move, pointer-up or pointer-leave that follows it
\* without a new pointer-down pushes a snapshot.
C9_CancelDiscards ==
    [][/\ CancelStep => (NoTransientState' /\ UNCHANGED histVars)
       /\ (g.gest.phase = "cancelled" /\ g'.gest.phase = "cancelled") => UNCHANGED histVars]_vars

\* C10: once a second pointer went down while another was pressed, the
\* release of the pointers pushes no snapshot, whatever the tool.
C10_PinchCancelsGesture ==
    [][(g.gest.phase = "pinched" /\ g'.gest.phase \in {"pinched", "released"} /\ pressed' # pressed)
            => UNCHANGED histVars]_vars

\* C11: in every reachable state the pinch state is non-null only if at least
\* two pointers are in the active-pointer map; so a pointer-up, pointer-leave
\* or pointer-cancel that leaves fewer than two active pointers leaves the
\* pinch state null.
C11_PinchNeedsTwoPointers ==
    pinchState # None => Cardinality(DOMAIN activePointers) >= 2

\* a pinch was started and a pointer of it was released or cancelled since
C11_Witness ==
    /\ g.gest.phase \in {"pinched", "cancelled"}
    /\ Cardinality(DOMAIN activePointers) = 1
    /\ pinchState = None

(***************************************************************************)
(* Claims about the view (checked under SpecView and SpecRoundTrip)        *)
(***************************************************************************)

\* C12: the view a pinch move produces depends only on the pinch state
\* captured at pinch start and on the two current pointer positions: its
\* scale is clamp(initialScale * currentDist / initialDist) and its offset
\* puts the initial world midpoint under the current midpoint.
C12_PinchFromInitialState ==
    [][vop'.op = "pinch" =>
            LET pinch == Val(pinchState)
                ps == PinchPoints(activePointers')
                currentDist == QInt(distance(ps[1], ps[2]))
                mid == [x |-> Q(ps[1].x + ps[2].x, 2), y |-> Q(ps[1].y + ps[2].y, 2)]
                scale == Clamp(QDiv(QMul(pinch.initialScale, currentDist), pinch.initialDist))
            IN  view' = QView(QSub(mid.x, QMul(pinch.worldMid.x, scale)),
                              QSub(mid.y, QMul(pinch.worldMid.y, scale)),
                              scale)]_vars

\* a pinch move has changed the scale of a view that an earlier event had
\* already zoomed
C12_Witness ==
    /\ vop.op = "pinch"
    /\ IsFinite(view.scale)
    /\ view.scale # vop.before.scale
    /\ Val(pinchState).initialScale # QInt(1)

\* C13: after any sequence of wheel, zoom-button, pinch and pan events the
\* scale of the view lies in [ZOOM_MIN, ZOOM_MAX].
C13_ScaleInRange ==
    QLe(ZOOM_MIN, view.scale) /\ QLe(view.scale, QZOOM_MAX)

\* C14: after a mouse-wheel zoom the world point that was under the pointer
\* maps back to the pointer's screen position.
C14_WheelAnchor ==
    [][vop'.op \in {"wheel", "variantWheel"} =>
            Q_worldToScreen(Q_screenToWorld(QPt(vop'.at), view), view') = QPt(vop'.at)]_vars

\* C15: a click on the "+" or "-" button leaves the world point under the
\* centre of the viewport where it was.
C15_ButtonZoomAboutCenter ==
    [][vop'.op \in {"zoomIn", "zoomOut"} =>
            Q_screenToWorld(Center, view') = Q_screenToWorld(Center, view)]_vars

\* C16: for every point p and every view v with a scale other than 0,
\* screenToWorld(worldToScreen(p, v), v) = p and
\* worldToScreen(screenToWorld(p, v), v) = p.
C16_RoundTrip ==
    fcall.fn \in {"world", "screen"} => fcall.ret = fcall.p

\* a round trip through a view with an offset and a scale that is no whole
\* number, of a point that is not the origin
C16_Witness ==
    /\ fcall.fn \in {"world", "screen"}
    /\ fcall.v.scale.d # 1
    /\ fcall.v.x # QInt(0)
    /\ fcall.p.x # QInt(0)
    /\ fcall.ret = fcall.p

(***************************************************************************)
(* Claims about the eraser (checked under SpecErase)                       *)
(***************************************************************************)

\* the eraser centre lies outside the bounds of el expanded by its
\* strokeWidth plus the eraser radius
OutsideExpanded(el, worldPos) ==
    ~isPointInBounds(worldPos, getElementBounds(el), el.strokeWidth + ERASER_RADIUS)

WithinEraser(p, c) == Dist2(p, c) <= ERASER_RADIUS * ERASER_RADIUS

\* the rasterized outline of the k-th shape of the list (scale 1)
Outline(k) == convertShapeToPoints(fcall.list[k], ERASE_SPACING)

\* the eraser removes at least one point of the outline of the k-th shape
RemovesPoints(k) ==
    \E i \in 1..Len(Outline(k)) : WithinEraser(Outline(k)[i], fcall.worldPos)

\* the total number of points of the shapes of a list of Pencils
RECURSIVE TotalPoints(_)
TotalPoints(list) == IF list = <<>> THEN 0 ELSE Len(Head(list).points) + TotalPoints(Tail(list))

\* a call on a single Pencil from which the eraser removes points
PencilErased ==
    /\ fcall.fn = "performErase"
    /\ Len(fcall.list) = 1
    /\ fcall.list[1].type = "pencil"
    /\ RemovesPoints(1)

\* no shape of the result holds a point within the eraser radius
NoErasedPointLeft ==
    \A j \in 1..Len(fcall.ret) : \A i \in 1..Len(fcall.ret[j].points) :
        ~WithinEraser(fcall.ret[j].points[i], fcall.worldPos)

\* C18 as stated: for a Pencil with N recorded points from which the eraser
\* removes points, the resulting Pencils hold at most N points in total and
\* none of them holds a point within the eraser radius
C18_Original ==
    PencilErased =>
        /\ TotalPoints(fcall.ret) <= Len(fcall.list[1].points)
        /\ NoErasedPointLeft

\* C18, amended: for a Pencil whose rasterized outline (convertShapeToPoints
\* at spacing 5 / scale) has M points and from which the eraser removes
\* points, the resulting Pencils hold at most M points in total and none of
\* them holds a point within the eraser radius
C18_Conservation ==
    PencilErased =>
        /\ \A j \in 1..Len(fcall.ret) : fcall.ret[j].type = "pencil"
        /\ TotalPoints(fcall.ret) <= Len(Outline(1))
        /\ NoErasedPointLeft

\* a two-point Pencil cut in the middle: two resulting Pencils that together
\* hold more points than were recorded and fewer than the outline has
C18_Witness ==
    /\ PencilErased
    /\ Len(fcall.ret) = 2
    /\ TotalPoints(fcall.ret) > Len(fcall.list[1].points)
    /\ TotalPoints(fcall.ret) < Len(Outline(1))

\* the runs of length >= 2 the walk left of the k-th shape
SurvivingRuns(k) == SelectSeq(fcall.trace[k].newSegments, LAMBDA seg : Len(seg) >= 2)

\* what the result is claimed to hold, shape by shape: a shape the eraser
\* removes no point of, as it is; for any other shape one new Pencil per
\* surviving run, with the stroke of the original
RECURSIVE Replacement(_)
Replacement(k) ==
    IF k > Len(fcall.list) THEN <<>>
    ELSE (IF RemovesPoints(k)
              THEN [j \in 1..Len(SurvivingRuns(k)) |->
                       [new |-> TRUE, points |-> SurvivingRuns(k)[j],
                        strokeColor |-> fcall.list[k].strokeColor,
                        strokeWidth |-> fcall.list[k].strokeWidth]]
              ELSE << [new |-> FALSE, el |-> fcall.list[k]] >>)
         \o Replacement(k + 1)

IsReplacement(el, e) ==
    IF e.new
        THEN /\ el.type = "pencil"
             /\ el.points = e.points
             /\ el.strokeColor = e.strokeColor
             /\ el.strokeWidth = e.strokeWidth
        ELSE el = e.el

\* every shape the eraser removes a point of is replaced by one new Pencil
\* per surviving run of length >= 2, which carries the original's
\* strokeColor and strokeWidth; runs of a single point produce no shape
PencilPerRun ==
    fcall.fn = "performErase" =>
        /\ Len(fcall.ret) = Len(Replacement(1))
        /\ \A j \in 1..Len(fcall.ret) : IsReplacement(fcall.ret[j], Replacement(1)[j])

\* the id of a shape the eraser removes a point of is the id of no shape
\* of the result
OriginalIdAbsent ==
    fcall.fn = "performErase" =>
        \A k \in 1..Len(fcall.list) :
            RemovesPoints(k) => \A j \in 1..Len(fcall.ret) : fcall.ret[j].id # fcall.list[k].id

\* C19: when the eraser removes at least one rasterized point of a shape,
\* the original shape (its id) is absent from the result and is replaced by
\* exactly one new Pencil per surviving run of length >= 2; runs of a single
\* point produce no shape; each new Pencil carries the original's
\* strokeColor and strokeWidth
C19_Replaced == OriginalIdAbsent /\ PencilPerRun

\* the index intervals <<i, j>> of the sequence pts whose points are all
\* farther than the radius from the eraser and that cannot be extended on
\* either side: i starts one (the point before it, if any, is within the
\* radius) and j is where it ends (the point after it, if any, is within)
MaximalIntervals(pts) ==
    LET n == Len(pts)
        far == [i \in 1..n |-> ~WithinEraser(pts[i], fcall.worldPos)]
        starts == { i \in 1..n : far[i] /\ (i = 1 \/ ~far[i - 1]) }
        EndOf(i) == CHOOSE j \in i..n :
                        /\ \A m \in i..j : far[m]
                        /\ j = n \/ ~far[j + 1]
    IN  { <<i, EndOf(i)>> : i \in starts }

\* C20: the runs performErase computes for a shape it walks are exactly the
\* maximal contiguous subsequences of the rasterized outline whose points
\* are all farther than the radius from the eraser centre, in the order of
\* the outline, the one that ends at the last point included
C20_MaximalRuns ==
    fcall.fn = "performErase" =>
        \A k \in 1..Len(fcall.list) :
            fcall.trace[k].walked =>
                LET runs == fcall.trace[k].newSegments
                    pts == Outline(k)
                    ivs == MaximalIntervals(pts)
                    Before(iv) == { other \in ivs : other[1] < iv[1] }
                IN  /\ fcall.trace[k].points = pts
                    /\ Len(runs) = Cardinality(ivs)
                    /\ \A iv \in ivs :
                           runs[Cardinality(Before(iv)) + 1] = SubSeq(pts, iv[1], iv[2])

\* a walked shape cut into several runs, the last of which ends at the last
\* point of the outline, with a run of a single point among them
C20_Witness ==
    /\ fcall.fn = "performErase"
    /\ \E k \in 1..Len(fcall.list) :
           LET runs == fcall.trace[k].newSegments
               pts == Outline(k)
               ivs == MaximalIntervals(pts)
           IN  /\ fcall.trace[k].walked
               /\ Len(runs) >= 2
               /\ \E r \in 1..Len(runs) : Len(runs[r]) = 1
               /\ \E iv \in ivs : iv[2] = Len(pts) /\ iv[1] < iv[2]

(***************************************************************************)
(* Claims about bounds and hit-testing (checked under SpecGeom)            *)
(***************************************************************************)

\* the k-th shape of the list is hit at the position and zoom of the call
HitAt(k) == hitTestElement(fcall.list[k], fcall.pos, fcall.zoom)

\* C21: getElementAtPosition returns the id of the shape with the highest
\* list index among those hitTestElement is true of at the point, and null
\* when no shape is hit
C21_TopmostHit ==
    fcall.fn = "getElementAtPosition" =>
        IF \E k \in 1..Len(fcall.list) : HitAt(k)
            THEN \E k \in 1..Len(fcall.list) :
                    /\ HitAt(k)
                    /\ \A j \in (k + 1)..Len(fcall.list) : ~HitAt(j)
                    /\ fcall.ret = fcall.list[k].id
            ELSE fcall.ret = Null

\* two shapes of a tentative list hit at the same point: the later one is
\* returned
C21_Witness ==
    /\ fcall.fn = "getElementAtPosition"
    /\ fcall.temp
    /\ Len(fcall.list) = 2
    /\ HitAt(1) /\ HitAt(2)
    /\ fcall.ret = fcall.list[2].id
    /\ fcall.ret # fcall.list[1].id

\* the distance of pos from the line of an axis-parallel arrow
ArrowOffset(el, pos) == IF el.y = el.endY THEN Abs(pos.y - el.y) ELSE Abs(pos.x - el.x)

\* pos lies beside the segment of an axis-parallel arrow: its foot on the
\* line of the arrow is a point of the segment
BesideArrow(el, pos) ==
    IF el.y = el.endY
        THEN Min2(el.x, el.endX) <= pos.x /\ pos.x <= Max2(el.x, el.endX)
        ELSE Min2(el.y, el.endY) <= pos.y /\ pos.y <= Max2(el.y, el.endY)

\* C22: hitTestElement on an Arrow uses the world-space threshold 10 / zoom:
\* a point beside the segment is a hit iff its offset from the segment is
\* less than 10 / zoom, so offset 9 hits at zoom 1 and misses at zoom 2
C22_ArrowThreshold ==
    fcall.fn = "hitTestElement" =>
        \A k \in 1..Len(fcall.list) :
            (fcall.list[k].type = "arrow" /\ BesideArrow(fcall.list[k], fcall.pos))
                => (fcall.ret[k] <=> ArrowOffset(fcall.list[k], fcall.pos) * fcall.zoom < 10)

\* offset 9 from the middle of an arrow at zoom 2: no hit
C22_Witness ==
    /\ fcall.fn = "hitTestElement"
    /\ fcall.zoom = 2
    /\ \E k \in 1..Len(fcall.list) :
           /\ fcall.list[k].type = "arrow"
           /\ BesideArrow(fcall.list[k], fcall.pos)
           /\ ArrowOffset(fcall.list[k], fcall.pos) = 9
           /\ ~fcall.ret[k]

\* C23: for every shape variant (Rectangle and Image with width and height
\* of either sign, Circle with radius >= 0, Triangle, Arrow, Pencil with any
\* point list) getElementBounds returns bounds with minX <= maxX and
\* minY <= maxY
C23_BoundsOrdered ==
    fcall.fn = "getElementBounds" =>
        \A k \in 1..Len(fcall.list) :
            fcall.ret[k].minX <= fcall.ret[k].maxX /\ fcall.ret[k].minY <= fcall.ret[k].maxY

\* the bounds of a rectangle of negative width and of an arrow that points
\* upwards, in one call
C23_Witness ==
    /\ fcall.fn = "getElementBounds"
    /\ Len(fcall.list) = 2
    /\ fcall.list[1].type = "rectangle" /\ fcall.list[1].width < 0
    /\ fcall.list[2].type = "arrow" /\ fcall.list[2].endY < fcall.list[2].y
    /\ fcall.ret[1].minX < fcall.ret[1].maxX
    /\ fcall.ret[2].minY < fcall.ret[2].maxY

\* the bounds of a Rectangle at the origin with the given width and height,
\* if the call computed them
RectBounds(width, height) ==
    { fcall.ret[k] : k \in { j \in 1..Len(fcall.list) :
                               /\ fcall.list[j].type = "rectangle"
                               /\ fcall.list[j].x = 0 /\ fcall.list[j].y = 0
                               /\ fcall.list[j].width = width /\ fcall.list[j].height = height } }

\* C24 as stated: getElementBounds of Rectangle {x:0,y:0,width:100,height:50}
\* is {minX:0,minY:0,maxX:100,maxY:50}, and getElementBounds of the
\* negative-width Rectangle {x:0,y:0,width:-100,height:50} is the same bounds
C24_Original ==
    fcall.fn = "getElementBounds" =>
        /\ \A b \in RectBounds(100, 50) : b = Bounds(0, 0, 100, 50)
        /\ \A b \in RectBounds(-100, 50) : b = Bounds(0, 0, 100, 50)

\* C24, amended: getElementBounds of Rectangle {x:0,y:0,width:100,height:50}
\* is {minX:0,minY:0,maxX:100,maxY:50}, and getElementBounds of the
\* negative-width Rectangle {x:0,y:0,width:-100,height:50} is
\* {minX:-100,minY:0,maxX:0,maxY:50}
C24_RectangleBounds ==
    fcall.fn = "getElementBounds" =>
        /\ \A b \in RectBounds(100, 50) : b = Bounds(0, 0, 100, 50)
        /\ \A b \in RectBounds(-100, 50) : b = Bounds(-100, 0, 0, 50)

\* both rectangles in one call
C24_Witness ==
    /\ fcall.fn = "getElementBounds"
    /\ RectBounds(100, 50) # {}
    /\ RectBounds(-100, 50) # {}

\* the bounds b contain the bounds a
Contains(b, a) ==
    b.minX <= a.minX /\ b.minY <= a.minY /\ b.maxX >= a.maxX /\ b.maxY >= a.maxY

\* C25: getCommonBounds returns null exactly for the empty list, and for a
\* non-empty sublist A of a list B the bounds of B contain the bounds of A
C25_CommonBoundsMonotone ==
    fcall.fn = "getCommonBounds" =>
        /\ fcall.ret = None <=> fcall.list = <<>>
        /\ fcall.retSub = None <=> fcall.sub = <<>>
        /\ fcall.sub # <<>> => Contains(Val(fcall.ret), Val(fcall.retSub))

\* a list of two shapes and its second shape alone, whose bounds are
\* strictly inside those of the list
C25_Witness ==
    /\ fcall.fn = "getCommonBounds"
    /\ Len(fcall.list) = 2
    /\ fcall.sub = << fcall.list[2] >>
    /\ Contains(Val(fcall.ret), Val(fcall.retSub))
    /\ Val(fcall.ret).minX < Val(fcall.retSub).minX
    /\ Val(fcall.ret).maxY > Val(fcall.retSub).maxY

\* the result is an explicit "no bounds" value, not numeric bounds
NoBounds(b) == b = None

\* C26 as stated: both empty-collection cases return an explicit "no bounds"
\* sentinel rather than numeric bounds: getCommonBounds([]) and the bounds of
\* a Pencil whose point list is empty
C26_Original ==
    /\ (fcall.fn = "getCommonBounds" /\ fcall.list = <<>>) => NoBounds(fcall.ret)
    /\ fcall.fn = "getElementBounds" =>
           \A k \in 1..Len(fcall.list) :
               (fcall.list[k].type = "pencil" /\ fcall.list[k].points = <<>>)
                   => NoBounds(fcall.ret[k])

\* C26, amended: getCommonBounds([]) returns the explicit "no bounds"
\* sentinel (null); the bounds of a Pencil whose point list is empty are the
\* numeric zero-sized bounds at the origin
C26_EmptyCollections ==
    /\ (fcall.fn = "getCommonBounds" /\ fcall.list = <<>>) => NoBounds(fcall.ret)
    /\ fcall.fn = "getElementBounds" =>
           \A k \in 1..Len(fcall.list) :
               (fcall.list[k].type = "pencil" /\ fcall.list[k].points = <<>>)
                   => fcall.ret[k] = Bounds(0, 0, 0, 0)

\* the bounds of an empty Pencil were computed
C26_Witness ==
    /\ fcall.fn = "getElementBounds"
    /\ \E k \in 1..Len(fcall.list) :
           /\ fcall.list[k].type = "pencil"
           /\ fcall.list[k].points = <<>>
           /\ fcall.ret[k] = Bounds(0, 0, 0, 0)

(***************************************************************************)
(* Claims about the shapes of committed snapshots                           *)
(***************************************************************************)

\* C27: every Rectangle contained in a committed history snapshot has
\* width >= 0 and height >= 0, whichever gesture committed it (drawing in
\* any direction, or resizing by dragging the bottom-right handle past the
\* rectangle's origin)
C27_CommittedRectanglesNormalised ==
    \A n \in 1..Len(history) : \A k \in 1..Len(history[n]) :
        history[n][k].type = "rectangle"
            => history[n][k].width >= 0 /\ history[n][k].height >= 0

\* the committed snapshots and the tentative list, if there is one
ShapeLists ==
    { history[n] : n \in 1..Len(history) }
        \cup (IF tempElements # None THEN { Val(tempElements) } ELSE {})

\* C28: a shape's type never changes under its id: if the same id occurs in
\* two snapshots of the history stack (or the tentative list), the two shapes
\* have the same type; in particular erasing introduces Pencils only under
\* ids that no earlier shape had
C28_TypeStableUnderId ==
    \A L1 \in ShapeLists : \A L2 \in ShapeLists :
        \A j \in 1..Len(L1) : \A k \in 1..Len(L2) :
            L1[j].id = L2[k].id => L1[j].type = L2[k].type

\* C29: in every committed snapshot and every tentative list, shape ids are
\* pairwise distinct
C29_IdsDistinct ==
    \A L \in ShapeLists :
        \A j \in 1..Len(L) : \A k \in 1..Len(L) : L[j].id = L[k].id => j = k

\* C30: when an image import completes, the history still contains every
\* snapshot that was at or before currentIndex just before, and the new
\* current list is the previously current list plus the image
C30_ImportKeepsHistory ==
    [][Len(imports') < Len(imports) =>
          /\ \A n \in 1..(currentIndex + 1) : \E m \in 1..Len(history') : history'[m] = history[n]
          /\ LET old == history[currentIndex + 1]
                 new == history'[currentIndex' + 1]
             IN  /\ Len(new) = Len(old) + 1
                 /\ SubSeq(new, 1, Len(old)) = old
                 /\ new[Len(new)].type = "image"]_vars


(***************************************************************************)
(* Claims about rasterisation (checked under SpecInterp and SpecRaster)    *)
(***************************************************************************)

\* C31: every call of interpolatePoints returns, also with spacing <= 0 and
\* p1 # p2, and with spacing > 0 it returns exactly ceil(distance / spacing)
\* points, the first of them p1 and none of them p2.
C31_Returned ==
    fcall.fn = "interpolatePoints" /\ fcall.spacing > 0 =>
        /\ Len(fcall.ret) = CeilDiv(distance(fcall.p1, fcall.p2), fcall.spacing)
        /\ fcall.ret = interpolatePoints(fcall.p1, fcall.p2, fcall.spacing)
        /\ fcall.p1 # fcall.p2 => fcall.ret[1] = fcall.p1
        /\ \A k \in 1..Len(fcall.ret) : fcall.ret[k] # fcall.p2

C31_Terminates == <>(fcall.fn = "interpolatePoints") /\ []C31_Returned

\* the points of marks occur in pts in the order of marks, from index from
\* on; marks that are the same point may share an index
RECURSIVE OccurInOrder(_, _, _)
OccurInOrder(marks, pts, from) ==
    IF marks = <<>> THEN TRUE
    ELSE LET hits == { k \in from..Len(pts) : pts[k] = Head(marks) }
         IN  /\ hits # {}
             /\ OccurInOrder(Tail(marks), pts,
                             CHOOSE k \in hits : \A j \in hits : k <= j)

\* the points the outline of a shape has to pass through, in order
Corners(el) ==
    CASE el.type \in {"rectangle", "image"} ->
            << Pt(el.x, el.y), Pt(el.x + el.width, el.y),
               Pt(el.x + el.width, el.y + el.height), Pt(el.x, el.y + el.height),
               Pt(el.x, el.y) >>
      [] el.type = "triangle" -> << el.p1, el.p2, el.p3, el.p1 >>
      [] el.type = "arrow" -> << Pt(el.x, el.y), Pt(el.endX, el.endY) >>
      [] el.type = "pencil" -> el.points

\* C32: the outline convertShapeToPoints returns is in outline order and
\* closed as stated: for a rectangle, image or triangle it starts and ends at
\* the corner (x, y), resp. p1, and passes the corners in the winding order;
\* for an arrow it ends at exactly (endX, endY); for a pencil with at least
\* one point it ends at the last recorded point and passes the recorded
\* points in recorded order.
C32_OutlineOrder ==
    fcall.fn = "convertShapeToPoints" =>
        LET el == fcall.el
            pts == fcall.ret
            marks == Corners(el)
        IN  /\ Len(pts) >= 1
            /\ pts[Len(pts)] = marks[Len(marks)]
            /\ el.type \in {"rectangle", "image", "triangle"} => pts[1] = pts[Len(pts)]
            /\ pts[1] = marks[1]
            /\ OccurInOrder(marks, pts, 1)

C32_Witness ==
    /\ fcall.fn = "convertShapeToPoints"
    /\ fcall.el.type = "rectangle"
    /\ fcall.el.width > 0 /\ fcall.el.height > 0
    /\ Len(fcall.ret) > 5

(***************************************************************************)
(* Claims about gestures and the history (SpecOutside, SpecHistory, ...)   *)
(***************************************************************************)

\* no pointer is pressed and no triangle is being placed
Idle == pressed = {} /\ triangleStep = 0

\* the step is a wheel event or clicks of a zoom button
ViewEvent == vop'.n # vop.n

\* the step is the pointer-down that opens a pan or laser gesture in an
\* idle state, or a pointer-move or the pointer-up of such a gesture
PanOrLaserEvent ==
    \/ Idle /\ g'.gest.phase = "open" /\ g'.gest.kind \in {"pan", "laser"}
    \/ /\ g.gest.phase = "open" /\ g.gest.kind \in {"pan", "laser"}
       /\ triangleStep = 0
       /\ g'.gest.phase \in {"open", "closed"}

\* C33: from an idle state, no event of a pan gesture or of a laser gesture,
\* no wheel event and no click of a zoom button changes the history stack
\* or currentIndex.
C33_OutsideHistory ==
    [][ ((Idle /\ ViewEvent) \/ PanOrLaserEvent)
            => history' = history /\ currentIndex' = currentIndex ]_vars

\* C34: undo and redo leave the snapshot stack as it is and are inverse on
\* the index: after k undos that took effect and j <= k redos the stack is
\* the one the run started from and currentIndex is k - j below its index;
\* with j = k (undo then redo, or k undos then k redos) the index and the
\* current snapshot are those the run started from.
C34_UndoRedoInverse ==
    fcall.fn = "run" =>
        /\ history = fcall.h0
        /\ currentIndex = fcall.i0 - fcall.undos + fcall.redos
        /\ fcall.redos = fcall.undos =>
                /\ currentIndex = fcall.i0
                /\ elements = At(fcall.h0, fcall.i0)

C34_Witness ==
    /\ fcall.fn = "run"
    /\ fcall.undos = 2
    /\ fcall.redos = 2
    /\ Len(history) >= 4

\* C35: pinch state is held only while two pointers are pressed at once:
\* the active-pointer map then holds exactly two pointers, each of which
\* went down and has not been released, left or been cancelled since; a
\* pointer that only moved is not among them.
C35_PinchNeedsTwoPressed ==
    pinchState # None =>
        /\ Cardinality(DOMAIN activePointers) = 2
        /\ DOMAIN activePointers \subseteq pressed

\* the number of triangles of a list
TriCount(els) == Cardinality({ k \in 1..Len(els) : els[k].type = "triangle" })

\* C36: the current list gains a triangle only by the third click of the
\* triangle tool: a pointer-down with the TRIANGLE tool at triangleStep 2,
\* which appends the triangle being placed with p3 at the position of the
\* click.  No pointer-up, pointer-leave or change of tool adds one.
C36_TriangleByThirdClick ==
    [][ TriCount(elements') > TriCount(elements) =>
            /\ activeTool = "TRIANGLE"
            /\ triangleStep = 2
            /\ currentElement # None
            /\ \E p \in pressed' \ pressed :
                   elements' = Append(elements,
                                      [Val(currentElement) EXCEPT
                                          !.p3 = screenToWorld(activePointers'[p], view)]) ]_vars

\* the shape b is the shape a translated by d
Translated(a, b, d) ==
    /\ b.id = a.id /\ b.type = a.type
    /\ CASE a.type = "pencil" ->
                /\ Len(b.points) = Len(a.points)
                /\ \A k \in 1..Len(a.points) :
                       b.points[k] = Pt(a.points[k].x + d.x, a.points[k].y + d.y)
                /\ b = [a EXCEPT !.points = b.points]
         [] a.type = "triangle" ->
                /\ b.p1 = Pt(a.p1.x + d.x, a.p1.y + d.y)
                /\ b.p2 = Pt(a.p2.x + d.x, a.p2.y + d.y)
                /\ b.p3 = Pt(a.p3.x + d.x, a.p3.y + d.y)
                /\ b = [a EXCEPT !.p1 = b.p1, !.p2 = b.p2, !.p3 = b.p3]
         [] a.type = "arrow" ->
                /\ b.x = a.x + d.x /\ b.y = a.y + d.y
                /\ b.endX = a.endX + d.x /\ b.endY = a.endY + d.y
                /\ b = [a EXCEPT !.x = b.x, !.y = b.y, !.endX = b.endX, !.endY = b.endY]
         [] OTHER ->
                /\ b.x = a.x + d.x /\ b.y = a.y + d.y
                /\ b = [a EXCEPT !.x = b.x, !.y = b.y]

\* the step is the release that ends a gesture opened by pressing a shape
\* with the SELECT tool
DragRelease ==
    /\ g.gest.phase = "open" /\ g.gest.kind = "drag"
    /\ g'.gest.phase = "closed"

\* last pointer position minus press position, in world space
DragVector ==
    LET last == screenToWorld(activePointers[g.gest.pid], view)
    IN  Pt(last.x - Val(dragOrigin).x, last.y - Val(dragOrigin).y)

\* C37: the release of a drag pushes nothing when the pointer is where it
\* was pressed; otherwise it pushes one list of the same length, ids, types
\* and order as the current list, in which every unselected shape is
\* unchanged and every selected shape is translated by the vector from the
\* press position to the last pointer position.
C37_DragCommit ==
    [][ DragRelease =>
            IF DragVector = Pt(0, 0)
                THEN history' = history /\ currentIndex' = currentIndex
            ELSE /\ Len(elements') = Len(elements)
                 /\ \A k \in 1..Len(elements) :
                        IF Has(selectedIds, elements[k].id)
                            THEN Translated(elements[k], elements'[k], DragVector)
                            ELSE elements'[k] = elements[k]
                 /\ history' = pushToHistory(history, currentIndex, elements').history
                 /\ currentIndex' = pushToHistory(history, currentIndex, elements').currentIndex ]_vars

\* C38: performErase keeps the z-order.  The result is the list with every
\* shape the eraser removes a point of replaced, where it stood, by the
\* Pencils of its surviving runs in run order; the other shapes stay as they
\* are and in their order.
C38_ZOrderKept ==
    fcall.fn = "performErase" =>
        LET n == Len(fcall.list)
            hit == [k \in 1..n |-> RemovesPoints(k)]
            runs == [k \in 1..n |-> SurvivingRuns(k)]
            before[k \in 1..(n + 1)] ==
                IF k = 1 THEN 0
                ELSE before[k - 1] + (IF hit[k - 1] THEN Len(runs[k - 1]) ELSE 1)
        IN  /\ Len(fcall.ret) = before[n + 1]
            /\ \A k \in 1..n :
                   IF hit[k]
                       THEN \A j \in 1..Len(runs[k]) :
                                /\ fcall.ret[before[k] + j].type = "pencil"
                                /\ fcall.ret[before[k] + j].points = runs[k][j]
                       ELSE fcall.ret[before[k] + 1] = fcall.list[k]

\* a shape cut into two Pencils below a shape that is left as it is, and
\* the same above one
C38_Witness ==
    /\ fcall.fn = "performErase"
    /\ Len(fcall.list) = 2
    /\ \E k \in 1..2 :
        /\ RemovesPoints(k) /\ Len(SurvivingRuns(k)) = 2
        /\ ~RemovesPoints(3 - k)
        /\ Len(fcall.ret) = 3
        /\ fcall.ret[IF k = 1 THEN 3 ELSE 1] = fcall.list[3 - k]
        /\ k = 2

\* the Pencils of the first result that the call produced
Produced(k) == \A j \in 1..Len(fcall.list) : fcall.list[j] # fcall.ret[k]

\* C39: performErase is idempotent at a fixed eraser position and radius.
\* Called with its own result it returns that list, shape for shape, and
\* draws no id: every point of a Pencil it produced is farther than the
\* radius from the eraser, and the outline of such a Pencil is its points.
C39_Idempotent ==
    fcall.fn = "performErase again" =>
        /\ fcall.ret2 = fcall.ret
        /\ fcall.ids2 = <<>>
        /\ \A k \in 1..Len(fcall.ret) :
               Produced(k) =>
                   /\ \A i \in 1..Len(fcall.ret[k].points) :
                          Dist2(fcall.ret[k].points[i], fcall.worldPos)
                              > ERASER_RADIUS * ERASER_RADIUS
                   /\ convertShapeToPoints(fcall.ret[k], ERASE_SPACING) = fcall.ret[k].points

\* the second call walks the outline of a Pencil the first call produced,
\* next to a shape the first call left alone
C39_Witness ==
    /\ fcall.fn = "performErase again"
    /\ fcall.ret # fcall.list
    /\ \E k, m \in 1..Len(fcall.ret) :
        /\ Produced(k)
        /\ isElementRoughlyIntersecting(fcall.ret[k], fcall.worldPos, ERASER_RADIUS)
        /\ ~Produced(m)

=============================================================================
